---- MODULE Spec2Model ----
(***************************************************************************)
(* A model of the SM83 emulator core of rust-sm83:                         *)
(*   - the execution engine of src/src/cpu.rs (enable-delay update,        *)
(*     interrupt dispatch, halt and halt-bug, table dispatch),             *)
(*   - the interrupt helper of src/src/cpu/hw/interrupts.rs,               *)
(*   - the opcode tables and the cycle costs their handlers return,        *)
(*   - the address space and bank controller of src/src/cpu/mmu.rs.        *)
(* The MMU the engine of cpu.rs talks to (crate::mmu::MMU) and its         *)
(* register file (crate::register::Registers) are not part of the source   *)
(* tree; they are modelled as a byte store with the request register at    *)
(* 0xFF0F and the enable register at 0xFFFF, and as plain fields.          *)
(***************************************************************************)
EXTENDS Integers, Sequences, FiniteSets, TLC

VARIABLES
    cpu,      \* the CPU aggregate of cpu.rs (struct CPU, with its mmu)
    last,     \* what the last engine step did (observation of do_cycle)
    fault,    \* the panic that ended execution, or NoFault
    steps,    \* number of engine steps taken (bounded by MaxSteps)
    arg,      \* input of the pure function under check
    res,      \* its result, NoRes before it has been applied
    mem,      \* the Memory of cpu/mmu.rs
    cart,     \* the ROM image handed to Memory::load_rom, NoCart before
    rd,       \* the last Memory::read_byte: address and value returned
    wr,       \* the last Memory::write_byte since then: address and value
    timer,    \* the Timer of cpu/hw/timer.rs and the cycles it was given
    gpu,      \* the GPU of gpu/gpu.rs and the cycles and line steps it has seen
    emu,      \* the run loop of emulator.rs, its two channels and their far ends
    registers, \* the Registers of cpu/registers.rs
    dev       \* the save-state files of device.rs, the writer threads still
              \* running, and what the last save or load returned

vars == <<cpu, last, fault, steps, arg, res, mem, cart, rd, wr, timer, gpu, dev, emu,
          registers>>

(***************************************************************************)
(* Bounds of the model.                                                    *)
(***************************************************************************)
MaxSteps == 5

(***************************************************************************)
(* Fixed-width arithmetic and bit operations on u8 / u16.                  *)
(***************************************************************************)
Byte == 0..255

Pow2(n) == 2^n

Bit(x, i) == (x \div Pow2(i)) % 2

RECURSIVE BitAnd(_, _)
BitAnd(x, y) ==
    IF x = 0 \/ y = 0 THEN 0
    ELSE (x % 2) * (y % 2) + 2 * BitAnd(x \div 2, y \div 2)

RECURSIVE BitOr(_, _)
BitOr(x, y) ==
    IF x = 0 THEN y
    ELSE IF y = 0 THEN x
    ELSE (IF x % 2 = 1 \/ y % 2 = 1 THEN 1 ELSE 0) + 2 * BitOr(x \div 2, y \div 2)

\* x & !(1 << n) on a byte
ClearBit(x, n) == x - Bit(x, n) * Pow2(n)

\* u8::trailing_zeros
trailing_zeros(x) ==
    IF x % 256 = 0 THEN 8
    ELSE CHOOSE n \in 0..7 : Bit(x, n) = 1 /\ \A m \in 0..(n - 1) : Bit(x, m) = 0

wrap16(x) == x % 65536

(***************************************************************************)
(* The MMU as the engine sees it: mmu.rb / mmu.wb / mmu.ww and the two     *)
(* interrupt registers mmu.inte (0xFFFF) and mmu.intf (0xFF0F).            *)
(* mmu.mem holds the bytes written so far; a byte never written is cart-   *)
(* ridge or power-on content, supplied by the environment env of the step: *)
(* env.code are the bytes at env.base, env.base+1, env.base+2 and env.data *)
(* the bytes at any other even / odd address.                              *)
(***************************************************************************)
Unwritten(addr, env) ==
    LET off == (addr - env.base) % 65536
    IN  IF off < Len(env.code) THEN env.code[off + 1]
        ELSE env.data[(addr % 2) + 1]

rb(c, addr, env) ==
    IF addr = \hFF0F THEN c.mmu.intf
    ELSE IF addr = \hFFFF THEN c.mmu.inte
    ELSE IF addr \in DOMAIN c.mmu.mem THEN c.mmu.mem[addr]
    ELSE Unwritten(addr, env)

wb(c, addr, v) ==
    IF addr = \hFF0F THEN [c EXCEPT !.mmu.intf = v]
    ELSE IF addr = \hFFFF THEN [c EXCEPT !.mmu.inte = v]
    ELSE [c EXCEPT !.mmu.mem =
            [a \in (DOMAIN c.mmu.mem) \cup {addr} |->
                IF a = addr THEN v ELSE c.mmu.mem[a]]]

\* little-endian word write
ww(c, addr, w) == wb(wb(c, addr, w % 256), wrap16(addr + 1), w \div 256)

(***************************************************************************)
(* Results of the engine's functions: the CPU after the call, the value    *)
(* returned (machine cycles), and the panic raised, if any.                *)
(***************************************************************************)
NoFault == [msg |-> "none", args |-> <<>>]

Ret(c, cycles, kind, op) ==
    [cpu |-> c, cycles |-> cycles, kind |-> kind, op |-> op, fault |-> NoFault]

Panic(c, msg, args, op) ==
    [cpu |-> c, cycles |-> 0, kind |-> "fault", op |-> op,
     fault |-> [msg |-> msg, args |-> args]]

(***************************************************************************)
(* CPU::updateime: the two delay counters.                                 *)
(***************************************************************************)
updateime(c) ==
    LET d == [c EXCEPT !.setdi = IF c.setdi = 2 THEN 1 ELSE 0,
                       !.ime   = IF c.setdi = 1 THEN FALSE ELSE @]
    IN  [d EXCEPT !.setei = IF d.setei = 2 THEN 1 ELSE 0,
                  !.ime   = IF d.setei = 1 THEN TRUE ELSE @]

(***************************************************************************)
(* CPU::pushstack                                                          *)
(***************************************************************************)
\* a pushstack that stores the word before moving the stack pointer
pushstack_store_first(c, value) ==
    LET s == ww(c, c.reg.sp, value)
    IN  [s EXCEPT !.reg.sp = (@ + 65536 - 2) % 65536]

pushstack(c, value) ==
    LET s == [c EXCEPT !.reg.sp = (@ + 65536 - 2) % 65536]
    IN  ww(s, s.reg.sp, value)

(***************************************************************************)
(* CPU::handleinterrupt.  triggered is inte & intf & 0x1F; the result n    *)
(* is the value returned (0: nothing dispatched).                          *)
(***************************************************************************)
triggered(c) == BitAnd(BitAnd(c.mmu.inte, c.mmu.intf), \h1F)

\* a handleinterrupt that leaves a halted CPU halted while IME is clear
handleinterrupt_wakes_only_with_ime(c) ==
    IF c.ime = FALSE THEN [cpu |-> c, n |-> 0, fault |-> NoFault]
    ELSE IF triggered(c) = 0 THEN [cpu |-> c, n |-> 0, fault |-> NoFault]
    ELSE LET d == [c EXCEPT !.halted = FALSE, !.ime = FALSE]
             n == trailing_zeros(triggered(c))
             f == [d EXCEPT !.mmu.intf = ClearBit(@, n)]
             p == pushstack(f, f.reg.pc)
         IN  [cpu |-> [p EXCEPT !.reg.pc = BitOr(\h0040, n * 8)],
              n |-> 4, fault |-> NoFault]

handleinterrupt(c) ==
    IF c.ime = FALSE /\ c.halted = FALSE THEN [cpu |-> c, n |-> 0, fault |-> NoFault]
    ELSE IF triggered(c) = 0 THEN [cpu |-> c, n |-> 0, fault |-> NoFault]
    ELSE LET w == [c EXCEPT !.halted = FALSE]
         IN  IF w.ime = FALSE THEN [cpu |-> w, n |-> 0, fault |-> NoFault]
             ELSE LET d == [w EXCEPT !.ime = FALSE]
                      n == trailing_zeros(triggered(c))
                  IN  IF n >= 5
                      THEN [cpu |-> d, n |-> 0,
                            fault |-> [msg |-> "Invalid interrupt triggered", args |-> <<>>]]
                      ELSE LET f == [d EXCEPT !.mmu.intf = ClearBit(@, n)]
                               p == pushstack(f, f.reg.pc)
                           IN  [cpu |-> [p EXCEPT !.reg.pc = BitOr(\h0040, n * 8)],
                                n |-> 4, fault |-> NoFault]

(***************************************************************************)
(* CPU::fetchbyte                                                          *)
(***************************************************************************)
\* a fetchbyte without the halt-bug arm (as the prototype's fetch_byte)
fetchbyte_always_advances(c, env) ==
    [b   |-> rb(c, c.reg.pc, env),
     cpu |-> [c EXCEPT !.reg.pc = wrap16(@ + 1)]]

fetchbyte(c, env) ==
    [b   |-> rb(c, c.reg.pc, env),
     cpu |-> IF c.halt_bug THEN [c EXCEPT !.halt_bug = FALSE]
             ELSE [c EXCEPT !.reg.pc = wrap16(@ + 1)]]

(***************************************************************************)
(* Flags of the F register (CpuFlag) and reg.getflag.                      *)
(***************************************************************************)
getflag(c, mask) == BitAnd(c.reg.f, mask) # 0

(***************************************************************************)
(* OPCODE_TABLE: every slot defaults to op_fallback and the groups below   *)
(* override it.  CB_TABLE: the table behind the 0xCB prefix.               *)
(***************************************************************************)
OPCODE_TABLE(op) ==
    IF op = \h00 THEN "op_00"
    ELSE IF op = \h76 THEN "op_76"
    ELSE IF op \in {\h01, \h11, \h21, \h31} THEN "op_ld_rr_d16"
    ELSE IF op \in {\h04, \h0C, \h14, \h1C, \h24, \h2C, \h3C} THEN "op_inc_r"
    ELSE IF op \in {\h05, \h0D, \h15, \h1D, \h25, \h2D, \h3D} THEN "op_dec_r"
    ELSE IF op \in {\h06, \h0E, \h16, \h1E, \h26, \h2E, \h3E} THEN "op_ld_r_d8"
    ELSE IF op \in {\h07, \h0F, \h17, \h1F} THEN "op_rot_a"
    ELSE IF op \in {\h03, \h13, \h23, \h33} THEN "op_inc_rr"
    ELSE IF op \in {\h0B, \h1B, \h2B, \h3B} THEN "op_dec_rr"
    ELSE IF op \in {\h09, \h19, \h29, \h39} THEN "op_add_hl_rr"
    ELSE IF op = \h36 THEN "op_ld_hl_d8"
    ELSE IF op \in {\hC5, \hD5, \hE5, \hF5} THEN "op_push_rr"
    ELSE IF op \in {\hC1, \hD1, \hE1, \hF1} THEN "op_pop_rr"
    ELSE IF op = \h08 THEN "op_store_nn_sp"
    ELSE IF op = \hFA THEN "op_ld_a_nn"
    ELSE IF op = \hEA THEN "op_ld_nn_a"
    ELSE IF op \in {\hE0, \hF0, \hE2, \hF2} THEN "op_ldh"
    ELSE IF op = \hF8 THEN "op_ld_hl_sp_e"
    ELSE IF op = \hF9 THEN "op_ld_sp_hl"
    ELSE IF op \in (\h40..\h7F) THEN "op_ld_r_r"
    ELSE IF op \in (\h80..\hBF) THEN "op_alu_r"
    ELSE IF op \in {\hC6, \hCE, \hD6, \hDE, \hE6, \hEE, \hF6, \hFE} THEN "op_alu_d8"
    ELSE IF op \in {\h18, \h20, \h28, \h30, \h38} THEN "op_jr"
    ELSE IF op \in {\hC3, \hC2, \hCA, \hD2, \hDA, \hE9} THEN "op_jp"
    ELSE IF op \in {\hCD, \hC4, \hCC, \hD4, \hDC} THEN "op_call"
    ELSE IF op \in {\hC9, \hD9, \hC0, \hC8, \hD0, \hD8} THEN "op_ret"
    ELSE IF op \in {\hC7, \hCF, \hD7, \hDF, \hE7, \hEF, \hF7, \hFF} THEN "op_rst"
    ELSE IF op \in {\h27, \h2F, \h37, \h3F, \hF3, \hFB, \h10} THEN "op_misc"
    ELSE IF op \in {\h0A, \h1A} THEN "op_ld_a_rr_ind"
    ELSE IF op \in {\h02, \h12} THEN "op_ld_rr_ind_a"
    ELSE IF op \in {\h22, \h2A, \h32, \h3A} THEN "op_ld_hl_incdec_a"
    ELSE IF op \in {\h34, \h35} THEN "op_incdec_hl_mem"
    ELSE IF op = \hCB THEN "op_cb"
    ELSE IF op = \hE8 THEN "op_add_sp_e"
    ELSE "op_fallback"

CB_TABLE(i) ==
    IF i < \h40 THEN "cb_rot"
    ELSE IF i < \h80 THEN "cb_bit"
    ELSE IF i < \hC0 THEN "cb_res"
    ELSE "cb_set"

(***************************************************************************)
(* The opcode handlers the engine model executes.  Each takes the CPU      *)
(* after the opcode fetch and returns the CPU and its cycle cost.          *)
(***************************************************************************)
op_00(c, op, env) == Ret(c, 1, "exec", op)

op_76(c, op, env) ==
    Ret([c EXCEPT !.halted = TRUE,
                  !.halt_bug = (BitAnd(BitAnd(c.mmu.intf, c.mmu.inte), \h1F) # 0)],
        1, "exec", op)

op_ld_r_d8(c, op, env) ==
    LET f == fetchbyte(c, env)
        v == f.b
    IN  Ret(CASE op = \h06 -> [f.cpu EXCEPT !.reg.b = v]
              [] op = \h0E -> [f.cpu EXCEPT !.reg.c = v]
              [] op = \h16 -> [f.cpu EXCEPT !.reg.d = v]
              [] op = \h1E -> [f.cpu EXCEPT !.reg.e = v]
              [] op = \h26 -> [f.cpu EXCEPT !.reg.h = v]
              [] op = \h2E -> [f.cpu EXCEPT !.reg.l = v]
              [] op = \h3E -> [f.cpu EXCEPT !.reg.a = v],
            2, "exec", op)

op_ldh(c, op, env) ==
    CASE op = \hE0 -> LET f == fetchbyte(c, env)
                      IN  Ret(wb(f.cpu, \hFF00 + f.b, f.cpu.reg.a), 3, "exec", op)
      [] op = \hF0 -> LET f == fetchbyte(c, env)
                      IN  Ret([f.cpu EXCEPT !.reg.a = rb(f.cpu, \hFF00 + f.b, env)],
                              3, "exec", op)
      [] op = \hE2 -> Ret(wb(c, \hFF00 + c.reg.c, c.reg.a), 2, "exec", op)
      [] op = \hF2 -> Ret([c EXCEPT !.reg.a = rb(c, \hFF00 + c.reg.c, env)],
                          2, "exec", op)

\* the inline pop of op_ret: lo, then hi, sp advanced by wrapping_add(1) twice
PopPc(c, env) ==
    LET lo == rb(c, c.reg.sp, env)
        s1 == [c EXCEPT !.reg.sp = wrap16(@ + 1)]
        hi == rb(s1, s1.reg.sp, env)
        s2 == [s1 EXCEPT !.reg.sp = wrap16(@ + 1)]
    IN  [s2 EXCEPT !.reg.pc = hi * 256 + lo]

op_ret(c, op, env) ==
    CASE op = \hC9 -> Ret(PopPc(c, env), 4, "exec", op)
      [] op = \hD9 -> Ret([PopPc(c, env) EXCEPT !.setei = 1], 4, "exec", op)
      [] op \in {\hC0, \hC8, \hD0, \hD8} ->
            LET cond == CASE op = \hC0 -> ~getflag(c, \h80)
                          [] op = \hC8 -> getflag(c, \h80)
                          [] op = \hD0 -> ~getflag(c, \h10)
                          [] op = \hD8 -> getflag(c, \h10)
            IN  IF cond THEN Ret(PopPc(c, env), 5, "exec", op)
                ELSE Ret(c, 2, "exec", op)

\* the DI and EI arms of op_misc
op_misc(c, op, env) ==
    CASE op = \hF3 -> Ret([c EXCEPT !.ime = FALSE], 1, "exec", op)
      [] op = \hFB -> Ret([c EXCEPT !.setei = 2], 1, "exec", op)

\* panic!("Unimplemented opcode {:02X}", op)
op_fallback(c, op, env) == Panic(c, "Unimplemented opcode", <<op>>, op)

(***************************************************************************)
(* CPU::call: fetch the opcode and dispatch through OPCODE_TABLE.          *)
(***************************************************************************)
call(c, env) ==
    LET f == fetchbyte(c, env)
        h == OPCODE_TABLE(f.b)
    IN  CASE h = "op_00"       -> op_00(f.cpu, f.b, env)
          [] h = "op_76"       -> op_76(f.cpu, f.b, env)
          [] h = "op_ld_r_d8"  -> op_ld_r_d8(f.cpu, f.b, env)
          [] h = "op_ldh"      -> op_ldh(f.cpu, f.b, env)
          [] h = "op_ret"      -> op_ret(f.cpu, f.b, env)
          [] h = "op_misc"     -> op_misc(f.cpu, f.b, env)
          [] h = "op_fallback" -> op_fallback(f.cpu, f.b, env)
          [] OTHER             -> Ret(f.cpu, 0, "unmodelled", f.b)

\* a docycle that forgets the halted tick and always calls the dispatcher
docycle_without_halted_tick(c, env) ==
    LET u == updateime(c)
        h == handleinterrupt(u)
    IN  IF h.fault # NoFault THEN Panic(h.cpu, h.fault.msg, h.fault.args, -1)
        ELSE IF h.n # 0 THEN Ret(h.cpu, h.n, "dispatch", -1)
        ELSE call(h.cpu, env)

(***************************************************************************)
(* CPU::docycle and CPU::do_cycle.  mmu.do_cycle(ticks) advances the       *)
(* peripherals, which report back only by raising request bits: raised.    *)
(***************************************************************************)
docycle(c, env) ==
    LET u == updateime(c)
        h == handleinterrupt(u)
    IN  IF h.fault # NoFault THEN Panic(h.cpu, h.fault.msg, h.fault.args, -1)
        ELSE IF h.n # 0 THEN Ret(h.cpu, h.n, "dispatch", -1)
        ELSE IF h.cpu.halted THEN Ret(h.cpu, 1, "halted", -1)
        ELSE call(h.cpu, env)

do_cycle(c, env, raised) ==
    LET r == docycle(c, env)
        ticks == r.cycles * 4
    IN  [cpu    |-> [r.cpu EXCEPT !.mmu.intf = BitOr(@, raised)],
         ticks  |-> ticks,
         fault  |-> r.fault,
         engine |-> r]

(***************************************************************************)
(* Memory (cpu/mmu.rs).  An array region is the map of the cells written   *)
(* so far; a cell never written holds 0 (Memory::new), or, in the two ROM  *)
(* buffers, the image byte load_rom copied there.  A ROM image is given by *)
(* its length and header type byte; RomData is its content.                *)
(***************************************************************************)
NoCart == [len |-> 0, type |-> 0]

\* rom_data[off]: the type byte at 0x147, elsewhere a byte that differs from
\* bank to bank at equal offsets within the bank
RomData(img, off) ==
    IF off = \h147 THEN img.type
    ELSE ((off \div \h4000) * 17 + (off % \h4000) * 3 + 1) % 256

Min(a, b) == IF a < b THEN a ELSE b

Cell(arr, i) == IF i \in DOMAIN arr THEN arr[i] ELSE 0

Store(arr, i, v) == (i :> v) @@ arr

\* a ROM buffer: the first n bytes were copied from the image at offset off,
\* over are the cells written since
RomCell(buf, img, i) ==
    IF i \in DOMAIN buf.over THEN buf.over[i]
    ELSE IF i < buf.n THEN RomData(img, buf.off + i)
    ELSE 0

\* Memory::new
NewMemory ==
    [rom_bank_0 |-> [n |-> 0, off |-> 0, over |-> <<>>],
     rom_bank_n |-> [n |-> 0, off |-> 0, over |-> <<>>],
     vram |-> <<>>, external_ram |-> <<>>, wram |-> <<>>, oam |-> <<>>,
     io_registers |-> <<>>, hram |-> <<>>, interrupt_enable |-> 0,
     mbc_type |-> "None", rom_bank |-> 1, ram_bank |-> 0,
     ram_enabled |-> FALSE, banking_mode |-> 0]

read_io_register(m, addr) == Cell(m.io_registers, addr - \hFF00)

\* read_byte with the echo range left unmapped
read_byte_echo_unmapped(m, img, addr) ==
    IF addr <= \h3FFF THEN RomCell(m.rom_bank_0, img, addr)
    ELSE IF addr <= \h7FFF THEN RomCell(m.rom_bank_n, img, addr - \h4000)
    ELSE IF addr <= \h9FFF THEN Cell(m.vram, addr - \h8000)
    ELSE IF addr <= \hBFFF THEN
        (IF m.ram_enabled THEN Cell(m.external_ram, addr - \hA000) ELSE \hFF)
    ELSE IF addr <= \hDFFF THEN Cell(m.wram, addr - \hC000)
    ELSE IF addr <= \hFDFF THEN \hFF
    ELSE IF addr <= \hFE9F THEN Cell(m.oam, addr - \hFE00)
    ELSE IF addr <= \hFEFF THEN \hFF
    ELSE IF addr <= \hFF7F THEN read_io_register(m, addr)
    ELSE IF addr <= \hFFFE THEN Cell(m.hram, addr - \hFF80)
    ELSE m.interrupt_enable

read_byte(m, img, addr) ==
    IF addr <= \h3FFF THEN RomCell(m.rom_bank_0, img, addr)
    ELSE IF addr <= \h7FFF THEN RomCell(m.rom_bank_n, img, addr - \h4000)
    ELSE IF addr <= \h9FFF THEN Cell(m.vram, addr - \h8000)
    ELSE IF addr <= \hBFFF THEN
        (IF m.ram_enabled THEN Cell(m.external_ram, addr - \hA000) ELSE \hFF)
    ELSE IF addr <= \hDFFF THEN Cell(m.wram, addr - \hC000)
    ELSE IF addr <= \hFDFF THEN Cell(m.wram, addr - \hE000)
    ELSE IF addr <= \hFE9F THEN Cell(m.oam, addr - \hFE00)
    ELSE IF addr <= \hFEFF THEN \hFF
    ELSE IF addr <= \hFF7F THEN read_io_register(m, addr)
    ELSE IF addr <= \hFFFE THEN Cell(m.hram, addr - \hFF80)
    ELSE m.interrupt_enable

\* the bank switching helpers
select_rom_bank(m, bank) == [m EXCEPT !.rom_bank = bank]

select_ram_bank(m, bank) == [m EXCEPT !.ram_bank = bank]

\* set_ram_enabled that can only switch the RAM on
set_ram_enabled_sticky(m, enabled) ==
    [m EXCEPT !.ram_enabled = m.ram_enabled \/ enabled]

set_ram_enabled(m, enabled) == [m EXCEPT !.ram_enabled = enabled]

\* set_banking_mode that also resets the RAM bank
set_banking_mode_resets_ram_bank(m, mode) ==
    [m EXCEPT !.banking_mode = BitAnd(mode, 1), !.ram_bank = 0]

set_banking_mode(m, mode) == [m EXCEPT !.banking_mode = BitAnd(mode, 1)]

\* write_mbc_register without the coercion of bank 0 to bank 1
write_mbc_register_without_coercion(m, addr, value) ==
    CASE m.mbc_type = "None" ->
            IF addr <= \h3FFF
            THEN [m EXCEPT !.rom_bank_0.over = Store(@, addr, value)]
            ELSE IF addr <= \h7FFF
            THEN [m EXCEPT !.rom_bank_n.over = Store(@, addr - \h4000, value)]
            ELSE m
      [] m.mbc_type = "MBC1" ->
            IF addr <= \h1FFF
            THEN set_ram_enabled(m, BitAnd(value, \h0F) = \h0A)
            ELSE IF addr <= \h3FFF
            THEN select_rom_bank(m, BitOr(BitAnd(m.rom_bank, \h60), BitAnd(value, \h1F)))
            ELSE IF addr <= \h5FFF
            THEN LET upper_bits == BitAnd(value, 3) * 32
                 IN  IF m.banking_mode = 0
                     THEN select_rom_bank(m, BitOr(BitAnd(m.rom_bank, \h1F), upper_bits))
                     ELSE select_ram_bank(m, BitAnd(value, 3))
            ELSE IF addr <= \h7FFF
            THEN set_banking_mode(m, BitAnd(value, 1))
            ELSE m
      [] OTHER -> m

write_mbc_register(m, addr, value) ==
    CASE m.mbc_type = "None" ->
            IF addr <= \h3FFF
            THEN [m EXCEPT !.rom_bank_0.over = Store(@, addr, value)]
            ELSE IF addr <= \h7FFF
            THEN [m EXCEPT !.rom_bank_n.over = Store(@, addr - \h4000, value)]
            ELSE m
      [] m.mbc_type = "MBC1" ->
            IF addr <= \h1FFF
            THEN set_ram_enabled(m, BitAnd(value, \h0F) = \h0A)
            ELSE IF addr <= \h3FFF
            THEN LET b    == BitAnd(value, \h1F)
                     bank == IF b = 0 THEN 1 ELSE b
                 IN  select_rom_bank(m, BitOr(BitAnd(m.rom_bank, \h60), bank))
            ELSE IF addr <= \h5FFF
            THEN LET upper_bits == BitAnd(value, 3) * 32
                 IN  IF m.banking_mode = 0
                     THEN select_rom_bank(m, BitOr(BitAnd(m.rom_bank, \h1F), upper_bits))
                     ELSE select_ram_bank(m, BitAnd(value, 3))
            ELSE IF addr <= \h7FFF
            THEN set_banking_mode(m, BitAnd(value, 1))
            ELSE m
      [] OTHER -> m

\* the passes lo .. hi-1 of the copy loop, in order: pass i reads
\* source_addr + i from the Memory as the passes before left it and stores
\* the byte in object attribute memory at i
RECURSIVE dma_copy(_, _, _, _, _)
dma_copy(m, img, source_addr, lo, hi) ==
    IF hi <= lo THEN m
    ELSE IF hi = lo + 1
    THEN [m EXCEPT !.oam = Store(@, lo, read_byte(m, img, source_addr + lo))]
    ELSE LET mid == (lo + hi) \div 2
         IN  CHOOSE r \in {dma_copy(half, img, source_addr, mid, hi) :
                             half \in {dma_copy(m, img, source_addr, lo, mid)}} : TRUE

dma_transfer(m, img, source) == dma_copy(m, img, source * 256, 0, \hA0)

write_io_register(m, img, addr, value) ==
    IF addr = \hFF46
    THEN dma_transfer([m EXCEPT !.io_registers = Store(@, \h46, value)], img, value)
    ELSE [m EXCEPT !.io_registers = Store(@, addr - \hFF00, value)]

\* write_byte that stores into external RAM whether or not it is enabled
write_byte_ram_unguarded(m, img, addr, value) ==
    IF addr <= \h7FFF THEN write_mbc_register(m, addr, value)
    ELSE IF addr <= \h9FFF THEN [m EXCEPT !.vram = Store(@, addr - \h8000, value)]
    ELSE IF addr <= \hBFFF THEN [m EXCEPT !.external_ram = Store(@, addr - \hA000, value)]
    ELSE IF addr <= \hDFFF THEN [m EXCEPT !.wram = Store(@, addr - \hC000, value)]
    ELSE IF addr <= \hFDFF THEN [m EXCEPT !.wram = Store(@, addr - \hE000, value)]
    ELSE IF addr <= \hFE9F THEN [m EXCEPT !.oam = Store(@, addr - \hFE00, value)]
    ELSE IF addr <= \hFEFF THEN m
    ELSE IF addr <= \hFF7F THEN write_io_register(m, img, addr, value)
    ELSE IF addr <= \hFFFE THEN [m EXCEPT !.hram = Store(@, addr - \hFF80, value)]
    ELSE [m EXCEPT !.interrupt_enable = value]

write_byte(m, img, addr, value) ==
    IF addr <= \h7FFF THEN write_mbc_register(m, addr, value)
    ELSE IF addr <= \h9FFF THEN [m EXCEPT !.vram = Store(@, addr - \h8000, value)]
    ELSE IF addr <= \hBFFF THEN
        (IF m.ram_enabled
         THEN [m EXCEPT !.external_ram = Store(@, addr - \hA000, value)]
         ELSE m)
    ELSE IF addr <= \hDFFF THEN [m EXCEPT !.wram = Store(@, addr - \hC000, value)]
    ELSE IF addr <= \hFDFF THEN [m EXCEPT !.wram = Store(@, addr - \hE000, value)]
    ELSE IF addr <= \hFE9F THEN [m EXCEPT !.oam = Store(@, addr - \hFE00, value)]
    ELSE IF addr <= \hFEFF THEN m
    ELSE IF addr <= \hFF7F THEN write_io_register(m, img, addr, value)
    ELSE IF addr <= \hFFFE THEN [m EXCEPT !.hram = Store(@, addr - \hFF80, value)]
    ELSE [m EXCEPT !.interrupt_enable = value]

\* the header decoding with the MBC3 range taken for MBC1
MbcOfHeader_mbc3_as_mbc1(t) ==
    IF t = \h00 THEN "None"
    ELSE IF t \in \h01..\h03 THEN "MBC1"
    ELSE IF t \in \h05..\h06 THEN "MBC2"
    ELSE IF t \in \h0F..\h13 THEN "MBC1"
    ELSE IF t \in \h19..\h1E THEN "MBC5"
    ELSE "None"

\* the controller family named by the header byte
MbcOfHeader(t) ==
    IF t = \h00 THEN "None"
    ELSE IF t \in \h01..\h03 THEN "MBC1"
    ELSE IF t \in \h05..\h06 THEN "MBC2"
    ELSE IF t \in \h0F..\h13 THEN "MBC3"
    ELSE IF t \in \h19..\h1E THEN "MBC5"
    ELSE "None"

\* copy_from_slice of image bytes off .. off+n into the first n cells of a
\* ROM buffer that holds no image yet
CopyIn(buf, off, n) ==
    [n    |-> n,
     off  |-> off,
     over |-> [k \in {j \in DOMAIN buf.over : j >= n} |-> buf.over[k]]]

load_rom(m, img) ==
    LET t  == IF img.len > \h147
              THEN [m EXCEPT !.mbc_type = MbcOfHeader(RomData(img, \h147))]
              ELSE m
        b0 == [t EXCEPT !.rom_bank_0 = CopyIn(@, 0, Min(img.len, \h4000))]
    IN  IF img.len > \h4000
        THEN [b0 EXCEPT !.rom_bank_n = CopyIn(@, \h4000, Min(img.len - \h4000, \h4000))]
        ELSE b0

(***************************************************************************)
(* highest_pending_interrupt (cpu/hw/interrupts.rs).  Option<Interrupt> is *)
(* <<>> for None and <<i>> for Some of the interrupt with discriminant i.  *)
(***************************************************************************)
RECURSIVE scan_pending(_, _)
scan_pending(pending, i) ==
    IF i >= 5 THEN <<>>
    ELSE IF BitAnd(pending, Pow2(i)) # 0 THEN <<i>>
    ELSE scan_pending(pending, i + 1)

\* a scan that starts at the Joypad bit and walks down
RECURSIVE scan_pending_from_top(_, _)
scan_pending_from_top(pending, i) ==
    IF i >= 5 THEN <<>>
    ELSE IF BitAnd(pending, Pow2(4 - i)) # 0 THEN <<4 - i>>
    ELSE scan_pending_from_top(pending, i + 1)

highest_pending_interrupt_top_first(m) ==
    LET pending == BitAnd(m.interrupt_enable, Cell(m.io_registers, \h0F))
    IN  IF pending = 0 THEN <<>> ELSE scan_pending_from_top(pending, 0)

highest_pending_interrupt(m) ==
    LET ie      == m.interrupt_enable
        iflag   == Cell(m.io_registers, \h0F)
        pending == BitAnd(ie, iflag)
    IN  IF pending = 0 THEN <<>> ELSE scan_pending(pending, 0)

(***************************************************************************)
(* The Timer (cpu/hw/timer.rs).  DIV is io_registers[0x04], TIMA [0x05],   *)
(* TMA [0x06], TAC [0x07], IF [0x0F]; the cycles accumulated toward the    *)
(* next TIMA increment are kept as a byte in io_registers[0x70].  tick     *)
(* gives the Timer's div_counter and the Memory after the call, and        *)
(* whether the call advanced TIMA (by an increment or a reload).           *)
(***************************************************************************)
threshold(input_clock_select) ==
    CASE input_clock_select = 0 -> 1024
      [] input_clock_select = 1 -> 16
      [] input_clock_select = 2 -> 64
      [] input_clock_select = 3 -> 256
      [] OTHER -> 1024

\* tick that stores the Timer bit as the whole request register
tick_overwrites_requests(div_counter, m, cycles) ==
    LET dc  == (div_counter + cycles) % 65536
        m1  == [m EXCEPT !.io_registers = Store(@, \h04, dc \div 256)]
        tac == Cell(m1.io_registers, \h07)
    IN  IF BitAnd(tac, \h04) = 0
        THEN [div_counter |-> dc, mem |-> m1, advanced |-> FALSE]
        ELSE LET th       == threshold(BitAnd(tac, \h03))
                 internal == Cell(m1.io_registers, \h70) + cycles
                 over     == (internal % 65536) >= th
                 tima     == Cell(m1.io_registers, \h05)
                 m2 == IF ~over THEN m1
                       ELSE IF tima = \hFF
                       THEN [m1 EXCEPT !.io_registers =
                               Store(Store(@, \h05, Cell(m1.io_registers, \h06)),
                                     \h0F, 4)]
                       ELSE [m1 EXCEPT !.io_registers = Store(@, \h05, (tima + 1) % 256)]
                 left == IF over THEN internal - th ELSE internal
             IN  [div_counter |-> dc,
                  mem |-> [m2 EXCEPT !.io_registers = Store(@, \h70, left % 256)],
                  advanced |-> over]

tick(div_counter, m, cycles) ==
    LET dc  == (div_counter + cycles) % 65536
        m1  == [m EXCEPT !.io_registers = Store(@, \h04, dc \div 256)]
        tac == Cell(m1.io_registers, \h07)
    IN  IF BitAnd(tac, \h04) = 0
        THEN [div_counter |-> dc, mem |-> m1, advanced |-> FALSE]
        ELSE LET th       == threshold(BitAnd(tac, \h03))
                 internal == Cell(m1.io_registers, \h70) + cycles
                 over     == (internal % 65536) >= th
                 tima     == Cell(m1.io_registers, \h05)
                 m2 == IF ~over THEN m1
                       ELSE IF tima = \hFF
                       THEN [m1 EXCEPT !.io_registers =
                               Store(Store(@, \h05, Cell(m1.io_registers, \h06)),
                                     \h0F, BitOr(Cell(m1.io_registers, \h0F), 4))]
                       ELSE [m1 EXCEPT !.io_registers = Store(@, \h05, (tima + 1) % 256)]
                 left == IF over THEN internal - th ELSE internal
             IN  [div_counter |-> dc,
                  mem |-> [m2 EXCEPT !.io_registers = Store(@, \h70, left % 256)],
                  advanced |-> over]

(***************************************************************************)
(* The pixel processor of gpu/gpu.rs: GPU::step on the Memory.             *)
(***************************************************************************)

\* the mode GPU::step derives from LY and the per-line counter
mode_of(ly, scanline_counter) ==
    IF ly >= 144 THEN 1
    ELSE IF scanline_counter < 80 THEN 2
    ELSE IF scanline_counter < 80 + 172 THEN 3
    ELSE 0

\* GPU::step that requests VBlank on every line increment of the blanking
\* period
step_requests_on_every_blank_line(g, m, cycles) ==
    LET io     == m.io_registers
        sc1    == g.scanline_counter + cycles
        carry  == sc1 >= 456
        sc2    == IF carry THEN sc1 - 456 ELSE sc1
        new_line == (Cell(io, \h44) + 1) % 256
        vblank == carry /\ new_line >= 144
        io1    == IF ~carry THEN io
                  ELSE IF vblank
                  THEN Store(Store(Store(io, \h44, new_line),
                                   \h0F, BitOr(Cell(io, \h0F), 1)),
                             \h41, BitAnd(Cell(io, \h41), \hFC))
                  ELSE IF new_line > 153 THEN Store(io, \h44, 0)
                  ELSE Store(io, \h44, new_line)
        mode   == mode_of(Cell(io1, \h44), sc2)
        io2    == Store(io1, \h41, BitAnd(Cell(io1, \h41), \hFC) + BitAnd(mode, \h03))
    IN  [scanline_counter |-> sc2, mode |-> mode,
         mem |-> [m EXCEPT !.io_registers = io2],
         carry |-> carry, vblank |-> vblank]

\* GPU::step: the counter and mode after the call, the Memory after it,
\* whether LY was incremented and whether the VBlank branch was taken
\* (the u32 counter stays below 456 + 255, so its wrapping_add never wraps)
step(g, m, cycles) ==
    LET io     == m.io_registers
        sc1    == g.scanline_counter + cycles
        carry  == sc1 >= 456
        sc2    == IF carry THEN sc1 - 456 ELSE sc1
        new_line == (Cell(io, \h44) + 1) % 256
        vblank == carry /\ new_line = 144
        io1    == IF ~carry THEN io
                  ELSE IF vblank
                  THEN Store(Store(Store(io, \h44, new_line),
                                   \h0F, BitOr(Cell(io, \h0F), 1)),
                             \h41, BitAnd(Cell(io, \h41), \hFC))
                  ELSE IF new_line > 153 THEN Store(io, \h44, 0)
                  ELSE Store(io, \h44, new_line)
        mode   == mode_of(Cell(io1, \h44), sc2)
        io2    == Store(io1, \h41, BitAnd(Cell(io1, \h41), \hFC) + BitAnd(mode, \h03))
    IN  [scanline_counter |-> sc2, mode |-> mode,
         mem |-> [m EXCEPT !.io_registers = io2],
         carry |-> carry, vblank |-> vblank]

(***************************************************************************)
(* The cycle cost returned by the handlers of the groups that have both    *)
(* register and (HL) forms.  Operand codes: B=0 C=1 D=2 E=3 H=4 L=5        *)
(* (HL)=6 A=7; in op_ld_r_r bits 3-5 are the destination, bits 0-2 the     *)
(* source.                                                                 *)
(***************************************************************************)
op_ld_r_r_cycles(op) ==
    LET dest == (op \div 8) % 8
    IN  IF dest = 6 THEN 2 ELSE 1

op_alu_r_cycles(op) ==
    LET src == op % 8
    IN  IF src = 6 THEN 2 ELSE 1

cb_rot_cycles(op) == IF op % 8 = 6 THEN 4 ELSE 2

cb_bit_cycles(op) == IF op % 8 = 6 THEN 3 ELSE 2

cb_res_cycles(op) == IF op % 8 = 6 THEN 4 ELSE 2

cb_set_cycles(op) == IF op % 8 = 6 THEN 4 ELSE 2

\* the cost the handler of a table slot returns when the opcode alone decides
\* it, -1 otherwise
TableCycles(table, b) ==
    IF table = "main"
    THEN CASE OPCODE_TABLE(b) = "op_ld_r_r" -> op_ld_r_r_cycles(b)
           [] OPCODE_TABLE(b) = "op_alu_r"  -> op_alu_r_cycles(b)
           [] OTHER -> -1
    ELSE CASE CB_TABLE(b) = "cb_rot" -> cb_rot_cycles(b)
           [] CB_TABLE(b) = "cb_bit" -> cb_bit_cycles(b)
           [] CB_TABLE(b) = "cb_res" -> cb_res_cycles(b)
           [] CB_TABLE(b) = "cb_set" -> cb_set_cycles(b)

(***************************************************************************)
(* The engine as a state machine.  Init is the CPU after CPU::new: run     *)
(* state as set there, registers and interrupt registers at their          *)
(* power-on defaults, nothing written to memory yet.                       *)
(***************************************************************************)
InitReg ==
    [a |-> \h01, f |-> \hB0, b |-> \h00, c |-> \h13, d |-> \h00, e |-> \hD8,
     h |-> \h01, l |-> \h4D, pc |-> \h0100, sp |-> \hFFFE]

InitMmu == [inte |-> 0, intf |-> 0, mem |-> <<>>]

InitCpu ==
    [reg |-> InitReg, mmu |-> InitMmu, halted |-> FALSE, halt_bug |-> FALSE,
     ime |-> TRUE, setdi |-> 0, setei |-> 0]

\* What one do_cycle call did: its kind (dispatch, halted tick, executed
\* opcode, fault), the opcode, the cycles docycle returned and the ticks handed
\* to the peripherals, IF as the engine left it (before the peripherals ran),
\* IME at the interrupt check (after updateime), and whether the step before
\* executed EI while IME was clear.  di follows the last DI: 1 once it has
\* executed, 2 once the instruction after it has executed, 0 again when EI
\* or RETI executes.  disp holds from a dispatch until EI or RETI executes.
\* was_halted: the step began with the CPU halted.
NoObs ==
    [kind |-> "none", op |-> -1, cycles |-> 0, ticks |-> 0, intf |-> 0,
     ime_chk |-> FALSE, after_ei |-> FALSE, di |-> 0, disp |-> FALSE,
     was_halted |-> FALSE]

Observe(c, r, prev) ==
    [kind |-> r.engine.kind, op |-> r.engine.op, cycles |-> r.engine.cycles,
     ticks |-> r.ticks, intf |-> r.engine.cpu.mmu.intf,
     ime_chk |-> updateime(c).ime,
     after_ei |-> (prev.kind = "exec" /\ prev.op = \hFB /\ ~prev.ime_chk),
     di |-> IF r.engine.kind # "exec" THEN prev.di
            ELSE IF r.engine.op = \hF3 THEN 1
            ELSE IF r.engine.op \in {\hFB, \hD9} THEN 0
            ELSE IF prev.di = 1 THEN 2
            ELSE prev.di,
     disp |-> IF r.engine.kind = "dispatch" THEN TRUE
              ELSE IF r.engine.kind = "exec" /\ r.engine.op \in {\hFB, \hD9} THEN FALSE
              ELSE prev.disp,
     was_halted |-> c.halted]

(***************************************************************************)
(* Inputs of a step: the program bytes at PC (an opcode of ProgOps and its *)
(* operand), the bytes found at never-written data addresses, and the      *)
(* request bits the peripherals raise during the step.                     *)
(***************************************************************************)
ProgOps == {\h00, \h76, \hF3, \hFB, \hD9, \h3E, \hE0, \hD3}

Operands(op) ==
    IF op = \h3E THEN {\h1F, \hE4}
    ELSE IF op = \hE0 THEN {\h0F, \hFF}
    ELSE {\h00}

CodeInputs == UNION {{<<op, b>> : b \in Operands(op)} : op \in ProgOps}

DataInputs == {<<\h50, \h01>>}

RaiseMasks == {\h00, \h15}

NoArg == [fn |-> "none"]

NoRes == [fn |-> "none"]

NoRead == [addr |-> -1, val |-> 0]

NoWrite == [addr |-> -1, val |-> 0]

\* Timer::new, no cycles given yet, TIMA never incremented
NewTimer == [div_counter |-> 0, total |-> 0, increments |-> 0]

\* the engine before its first step
EngineIdle ==
    /\ cpu = InitCpu
    /\ last = NoObs
    /\ fault = NoFault
    /\ steps = 0

\* no pure function under check
FnIdle == arg = NoArg /\ res = NoRes

\* the Memory as constructed, no image loaded
MemoryIdle == mem = NewMemory /\ cart = NoCart /\ rd = NoRead /\ wr = NoWrite

\* the Timer as constructed
TimerIdle == timer = NewTimer

\* GPU::new (the framebuffer is left out: no specification here writes video
\* RAM, so render_scanline only ever stores palette index 0 over the zeros it
\* starts with, and no window is opened, so present does nothing); with it,
\* the cycles given so far, the line increments made, the VBlank requests
\* raised, where the last one was raised, and whether LY was written by the CPU
NewGpu ==
    [scanline_counter |-> 0, mode |-> 2,
     total |-> 0, lines |-> 0, raisings |-> 0,
     raised_lines |-> 0, raised_cycles |-> 0, raised_total |-> 0,
     written |-> FALSE]

\* the GPU as constructed
GpuIdle == gpu = NewGpu

\* no save-state file on disk
NoFile == [exists |-> FALSE, data |-> <<>>, intact |-> FALSE, origin |-> InitCpu]

NoCall == [name |-> "none", slot |-> -1, result |-> "none", seq |-> 0]

Slots == {0, 1}

\* a Device that has saved and loaded nothing, with no save-state files;
\* saved remembers, per slot, the state the last save_state_slot call that
\* returned Ok was given
NewDev == [files |-> [slot \in Slots |-> NoFile], pending |-> {},
           wrote |-> [slot |-> -1, result |-> "none", outcome |-> "none"],
           saved |-> [slot \in Slots |-> [done |-> FALSE, cpu |-> InitCpu]],
           op |-> NoCall]

DevIdle == dev = NewDev

\* run_cpu at its first instruction: the locals of the run loop, the frame
\* channel (buffers queued, the buffer the consumer is uploading, whether the
\* receiver is alive), the control channel (events queued, whether its
\* sender is alive), the events sent and applied so far, the frames the GPU
\* has completed, what became of the last one and the pool buffer it was
\* copied into
NewEmu ==
    [legacy |-> FALSE, pc |-> "frame", ticks |-> 0, frame_count |-> 0,
     next_fb |-> 0, limit_speed |-> TRUE, turbo_setting |-> "Double",
     chan |-> <<>>, held |-> -1, rx_alive |-> TRUE,
     queue |-> <<>>, tx_alive |-> TRUE, sent |-> 0, applied |-> <<>>,
     frames |-> 0, outcome |-> "none", copied |-> -1]

EmuIdle == emu = NewEmu

\* Registers::new
NewRegisters ==
    [a |-> 0, b |-> 0, c |-> 0, d |-> 0, e |-> 0, f |-> 0, h |-> 0, l |-> 0,
     sp |-> 0, pc |-> 0]

RegistersIdle == registers = NewRegisters

Init == EngineIdle /\ FnIdle /\ MemoryIdle /\ TimerIdle /\ GpuIdle /\ DevIdle /\ EmuIdle /\ RegistersIdle

Step ==
    /\ fault = NoFault
    /\ steps < MaxSteps
    /\ \E code \in CodeInputs, data \in DataInputs, raised \in RaiseMasks :
         LET env == [base |-> cpu.reg.pc, code |-> code, data |-> data]
             r   == do_cycle(cpu, env, raised)
         IN  /\ r.engine.kind # "unmodelled"
             /\ cpu' = r.cpu
             /\ last' = Observe(cpu, r, last)
             /\ fault' = r.fault
             /\ steps' = steps + 1
    /\ UNCHANGED <<arg, res, mem, cart, rd, wr, timer, gpu, dev, emu, registers>>

Next == Step

Spec == Init /\ [][Next]_vars

(***************************************************************************)
(* Vocabulary of the claims about the engine.                              *)
(***************************************************************************)
\* enable & request & 0x1F
Pending(ie, iflag) == BitAnd(BitAnd(ie, iflag), 31)

\* the lowest-numbered bit 0..4 set in m (m # 0, m < 32)
LowestBit(m) == CHOOSE n \in 0..4 : Bit(m, n) = 1 /\ \A k \in 0..4 : Bit(m, k) = 1 => n <= k

\* a step of the engine has been taken
Stepped == steps' = steps + 1

\* C1: a step that begins, after the enable-delay update, with IME set and
\* (IE & IF & 0x1F) # 0 dispatches instead of fetching: halted is cleared,
\* exactly the lowest pending bit n is cleared in IF, PC is pushed (SP - 2,
\* low byte first), PC becomes 0x0040 + 8n and no opcode is executed.
C1_DispatchPrecedesFetch ==
    [][ (Stepped /\ updateime(cpu).ime /\ Pending(cpu.mmu.inte, cpu.mmu.intf) # 0) =>
          LET n   == LowestBit(Pending(cpu.mmu.inte, cpu.mmu.intf))
              sp2 == (cpu.reg.sp + 65536 - 2) % 65536
          IN  /\ last'.kind = "dispatch"
              /\ last'.op = -1
              /\ cpu'.halted = FALSE
              /\ last'.intf = cpu.mmu.intf - Pow2(n)
              /\ cpu'.reg.sp = sp2
              /\ rb(cpu', sp2, [base |-> 0, code |-> <<>>, data |-> <<0, 0>>])
                    = cpu.reg.pc % 256
              /\ rb(cpu', (sp2 + 1) % 65536, [base |-> 0, code |-> <<>>, data |-> <<0, 0>>])
                    = cpu.reg.pc \div 256
              /\ cpu'.reg.pc = 64 + 8 * n
              /\ [cpu'.reg EXCEPT !.pc = 0, !.sp = 0] = [cpu.reg EXCEPT !.pc = 0, !.sp = 0]
      ]_vars

\* C1 witness: a dispatch of the Timer interrupt (n = 2) taken while bit 0
\* and bit 4 were requested but bit 0 was not enabled.
C1_Witness ==
    /\ last.kind = "dispatch"
    /\ cpu.reg.pc = 80
    /\ last.intf = 17
    /\ cpu.reg.sp = 65532

\* C3: after EI executes with IME clear, IME is still clear at the interrupt
\* check of the following step, which executes one instruction and dispatches
\* nothing, and IME is set at the interrupt check of the step after that one.
C3_EiTakesEffectAfterNextInstruction ==
    [][ Stepped =>
          /\ (last.kind = "exec" /\ last.op = 251 /\ ~last.ime_chk) =>
                (~last'.ime_chk /\ last'.kind \in {"exec", "fault"})
          /\ last.after_ei => last'.ime_chk
      ]_vars

\* C3, first half only (for reference): the step after EI never dispatches.
C3_NoDispatchRightAfterEi ==
    [][ (Stepped /\ last.kind = "exec" /\ last.op = 251 /\ ~last.ime_chk) =>
          (~last'.ime_chk /\ last'.kind \in {"exec", "fault"}) ]_vars

\* C4: DI does not clear IME in the step that executes it: with IME set when
\* DI executes, IME is still set when that step ends.
C4_DiIsDelayed ==
    (last.kind = "exec" /\ last.op = 243 /\ last.ime_chk) => cpu.ime

\* C8: an interrupt-dispatch step costs 5 machine cycles (20 clock ticks).
C8_DispatchCostsFive ==
    last.kind = "dispatch" => (last.cycles = 5 /\ last.ticks = 20)

\* C6: a step that begins halted with nothing pending costs 1 machine cycle,
\* fetches nothing and leaves registers, PC, SP, IF, IE and halted unchanged.
C6_HaltedNoOp ==
    [][ (Stepped /\ cpu.halted /\ Pending(cpu.mmu.inte, cpu.mmu.intf) = 0) =>
          /\ last'.kind = "halted"
          /\ last'.op = -1
          /\ last'.cycles = 1
          /\ last'.ticks = 4
          /\ cpu'.reg = cpu.reg
          /\ last'.intf = cpu.mmu.intf
          /\ cpu'.mmu.inte = cpu.mmu.inte
          /\ cpu'.mmu.mem = cpu.mmu.mem
          /\ cpu'.halted
      ]_vars

\* C6 witness: a second consecutive halted tick with nothing pending.
C6_Witness ==
    /\ last.kind = "halted"
    /\ cpu.halted
    /\ Pending(cpu.mmu.inte, last.intf) = 0
    /\ steps >= 3

\* bytes an instruction of the modelled program occupies (straight-line ones)
Straight == {0, 118, 243, 251, 62, 224}

OpLen(op) == IF op \in {62, 224} THEN 2 ELSE 1

\* HALT sets the flag when something is pending and IME is clear, and does
\* not set it when nothing is pending (IF as HALT saw it is last.intf)
HaltSetsFlag ==
    (last.kind = "exec" /\ last.op = 118) =>
        /\ (Pending(cpu.mmu.inte, last.intf) # 0 /\ ~last.ime_chk) => cpu.halt_bug
        /\ Pending(cpu.mmu.inte, last.intf) = 0 => ~cpu.halt_bug

\* the step that performs the first fetch after the flag was set: the opcode
\* fetch leaves PC alone, so an operand fetch re-reads the opcode byte, and the
\* flag is clear afterwards unless the opcode fetched is HALT itself
FirstFetchKeepsPc ==
    (cpu.halt_bug /\ last'.kind \in {"exec", "fault"}) =>
        /\ last'.op \in Straight => cpu'.reg.pc = (cpu.reg.pc + OpLen(last'.op) - 1) % 65536
        /\ last'.kind = "fault" => cpu'.reg.pc = cpu.reg.pc
        /\ last'.op = 62 => cpu'.reg.a = 62
        /\ last'.op # 118 => (~cpu'.halt_bug /\ ~cpu'.halted)

\* every fetch made with the flag clear advances PC by one
LaterFetchesAdvance ==
    (~cpu.halt_bug /\ last'.kind \in {"exec", "fault"}) =>
        /\ last'.op \in Straight => cpu'.reg.pc = (cpu.reg.pc + OpLen(last'.op)) % 65536
        /\ last'.kind = "fault" => cpu'.reg.pc = (cpu.reg.pc + 1) % 65536
        /\ ~cpu'.halt_bug \/ last'.op = 118

\* C5 as stated: when HALT executes while (IE & IF & 0x1F) # 0 and IME is
\* clear the halt-bug flag is set, the next step leaves the halted state
\* without dispatching, its fetch does not advance PC and clears the flag,
\* and every later fetch advances PC; with nothing pending the flag is not set.
C5_HaltBugAsStated ==
    [][ Stepped =>
          /\ HaltSetsFlag'
          /\ (last.kind = "exec" /\ last.op = 118 /\ cpu.halt_bug /\ ~last.ime_chk) =>
                last'.kind \in {"exec", "fault"}
          /\ FirstFetchKeepsPc
          /\ LaterFetchesAdvance
      ]_vars

\* C5 as amended: the same, but the step after HALT dispatches when (and only
\* when) an EI/RETI enable in flight sets IME at that step; the flag then
\* stays set through the dispatch and it is the handler's first fetch that
\* does not advance PC.
C5_HaltBugAmended ==
    [][ Stepped =>
          /\ HaltSetsFlag'
          /\ (last.kind = "exec" /\ last.op = 118 /\ cpu.halt_bug /\ ~last.ime_chk) =>
                /\ last'.kind \in {"exec", "fault", "dispatch"}
                /\ last'.kind = "dispatch" <=> updateime(cpu).ime
                /\ last'.kind = "dispatch" => (cpu'.halt_bug /\ ~cpu'.halted)
          /\ FirstFetchKeepsPc
          /\ LaterFetchesAdvance
      ]_vars

\* C5 witness: LD A,d8 fetched under the halt bug has loaded its own opcode
\* byte (0x3E is no operand the program supplies) and the flag is clear again.
C5_Witness ==
    /\ last.kind = "exec"
    /\ last.op = 62
    /\ cpu.reg.a = 62
    /\ ~cpu.halt_bug
    /\ ~cpu.halted

\* C36: once DI has executed and the instruction after it has completed,
\* no step dispatches an interrupt until EI or RETI executes, whatever came
\* before the DI and whatever is pending.
C36_NoDispatchAfterDi ==
    [][ (Stepped /\ last'.kind = "dispatch") => last.di # 2 ]_vars

\* DI has executed with IME clear at its interrupt check while an enable was
\* in flight, and IME is set when the following instruction has completed
ImeSetAfterDi ==
    /\ last.di = 2
    /\ cpu.ime

\* C37: a dispatch leaves IME clear, and no step dispatches after a
\* dispatch until EI or RETI has executed in between.
C37_NoSecondDispatch ==
    [][ (Stepped /\ last'.kind = "dispatch") => (~cpu'.ime /\ ~last.disp) ]_vars

\* a dispatch leaves IME clear (for reference)
DispatchClearsIme == last.kind = "dispatch" => ~cpu.ime

\* the step woke the halted CPU and executed the instruction at PC: nothing
\* pushed, no vector taken, no request bit cleared
WokenAndExecuted ==
    /\ last'.kind \in {"exec", "fault"}
    /\ last'.kind = "exec" =>
          /\ last'.op # \h76 => ~cpu'.halted
          /\ last'.op # \hD9 =>
                /\ cpu'.reg.sp = cpu.reg.sp
                /\ (cpu'.reg.pc - cpu.reg.pc) \in 0..2
          /\ last'.op # \hE0 =>
                /\ cpu'.mmu.mem = cpu.mmu.mem
                /\ last'.intf = cpu.mmu.intf

\* C38 as stated: a step that begins halted with IME clear and an enabled
\* request pending clears halted and executes the instruction after HALT
\* without dispatching; a step that begins halted with a request pending is
\* never a halted tick.
C38_HaltedWakeAsStated ==
    [][ Stepped =>
          /\ (cpu.halted /\ ~cpu.ime /\ triggered(cpu) # 0) => WokenAndExecuted
          /\ (cpu.halted /\ triggered(cpu) # 0) => last'.kind # "halted"
      ]_vars

\* C38 as amended: the same for a step at whose interrupt check IME is
\* still clear; when an enable requested by EI or RETI sets IME at the start
\* of the step, the step dispatches instead.
C38_HaltedWakeAmended ==
    [][ Stepped =>
          /\ (cpu.halted /\ ~updateime(cpu).ime /\ triggered(cpu) # 0) => WokenAndExecuted
          /\ (cpu.halted /\ ~cpu.ime /\ updateime(cpu).ime /\ triggered(cpu) # 0) =>
                (last'.kind = "dispatch" /\ ~cpu'.halted)
          /\ (cpu.halted /\ triggered(cpu) # 0) => last'.kind # "halted"
      ]_vars

\* C38 witness: a step that began halted with IME clear executed the NOP
\* after HALT, the request still pending when the engine was done
C38_Witness ==
    /\ last.was_halted
    /\ last.kind = "exec"
    /\ last.op = \h00
    /\ ~last.ime_chk
    /\ ~cpu.halted
    /\ Pending(cpu.mmu.inte, last.intf) # 0
    /\ cpu.reg.sp = \hFFFE

(***************************************************************************)
(* Specification of the interrupt selection as a pure function: every pair *)
(* of enable and request masks, given to highest_pending_interrupt and to  *)
(* the engine's handleinterrupt (with IME set).                            *)
(***************************************************************************)
InitInterrupts ==
    /\ EngineIdle
    /\ MemoryIdle
    /\ TimerIdle
    /\ GpuIdle
    /\ DevIdle
    /\ EmuIdle
    /\ RegistersIdle
    /\ res = NoRes
    /\ arg \in {[fn |-> "irq", enable |-> e, request |-> r] : e \in Byte, r \in Byte}

SelectInterrupt ==
    /\ arg.fn = "irq"
    /\ res = NoRes
    /\ LET m == write_byte(write_byte(NewMemory, NoCart, \hFFFF, arg.enable),
                           NoCart, \hFF0F, arg.request)
           c == [InitCpu EXCEPT !.mmu.inte = arg.enable, !.mmu.intf = arg.request]
           h == handleinterrupt(c)
       IN  res' = [fn |-> "irq",
                   helper |-> highest_pending_interrupt(m),
                   engine |-> [n |-> h.n, pc |-> h.cpu.reg.pc, intf |-> h.cpu.mmu.intf]]
    /\ UNCHANGED <<cpu, last, fault, steps, arg, mem, cart, rd, wr, timer, gpu, dev, emu, registers>>

NextInterrupts == SelectInterrupt

SpecInterrupts == InitInterrupts /\ [][NextInterrupts]_vars

(***************************************************************************)
(* Specification of the two dispatch tables: every first byte through      *)
(* OPCODE_TABLE and every second byte through op_cb and CB_TABLE.          *)
(***************************************************************************)
InitTables ==
    /\ EngineIdle
    /\ MemoryIdle
    /\ TimerIdle
    /\ GpuIdle
    /\ DevIdle
    /\ EmuIdle
    /\ RegistersIdle
    /\ res = NoRes
    /\ arg \in {[fn |-> "table", table |-> t, byte |-> b] : t \in {"main", "cb"}, b \in Byte}

\* CPU::call on a CPU whose next byte is arg.byte
DispatchMain ==
    /\ arg.fn = "table" /\ arg.table = "main"
    /\ res = NoRes
    /\ LET env == [base |-> InitCpu.reg.pc, code |-> <<arg.byte>>, data |-> <<0, 0>>]
           f   == fetchbyte(InitCpu, env)
           h   == OPCODE_TABLE(f.b)
       IN  res' = [fn |-> "table", handler |-> h, pc |-> f.cpu.reg.pc,
                   fault |-> IF h = "op_fallback"
                             THEN op_fallback(f.cpu, f.b, env).fault ELSE NoFault,
                   cycles |-> TableCycles("main", f.b)]
    /\ UNCHANGED <<cpu, last, fault, steps, arg, mem, cart, rd, wr, timer, gpu, dev, emu, registers>>

\* op_cb on a CPU whose next byte (after the prefix) is arg.byte
DispatchPrefixed ==
    /\ arg.fn = "table" /\ arg.table = "cb"
    /\ res = NoRes
    /\ LET env == [base |-> InitCpu.reg.pc, code |-> <<\hCB, arg.byte>>, data |-> <<0, 0>>]
           f   == fetchbyte(fetchbyte(InitCpu, env).cpu, env)
       IN  res' = [fn |-> "table", handler |-> CB_TABLE(f.b), pc |-> f.cpu.reg.pc,
                   fault |-> NoFault,
                   cycles |-> TableCycles("cb", f.b)]
    /\ UNCHANGED <<cpu, last, fault, steps, arg, mem, cart, rd, wr, timer, gpu, dev, emu, registers>>

NextTables == DispatchMain \/ DispatchPrefixed

SpecTables == InitTables /\ [][NextTables]_vars

(***************************************************************************)
(* Specification of the Memory: an image is loaded, then bytes are written *)
(* and read at addresses of every region the claims speak of.              *)
(***************************************************************************)
Images ==
    {[len |-> \h8000,  type |-> \h00],
     [len |-> \h10000, type |-> \h01],
     [len |-> \h20000, type |-> \h03],
     [len |-> \h10000, type |-> \h13]}

WriteAddrs == {\h0000, \h2000, \h4000, \h6000, \hA000, \hC000}

WriteValues == {\h00, \h02, \h0A, \h21}

ReadAddrs == {\h0000, \h0147, \h3FFF, \h4000, \h4001, \h7FFF, \hA000, \hC000}

InitMemory == EngineIdle /\ FnIdle /\ MemoryIdle /\ TimerIdle /\ GpuIdle /\ DevIdle /\ EmuIdle /\ RegistersIdle

LoadRom ==
    /\ cart = NoCart
    /\ \E img \in Images :
         /\ mem' = load_rom(mem, img)
         /\ cart' = img
    /\ rd' = NoRead
    /\ wr' = NoWrite
    /\ UNCHANGED <<cpu, last, fault, steps, arg, res, timer, gpu, dev, emu, registers>>

Write ==
    /\ cart # NoCart
    /\ \E addr \in WriteAddrs, v \in WriteValues :
         /\ mem' = write_byte(mem, cart, addr, v)
         /\ wr' = [addr |-> addr, val |-> v]
    /\ rd' = NoRead
    /\ UNCHANGED <<cpu, last, fault, steps, arg, res, cart, timer, gpu, dev, emu, registers>>

Read ==
    /\ cart # NoCart
    /\ \E addr \in ReadAddrs :
         rd' = [addr |-> addr, val |-> read_byte(mem, cart, addr)]
    /\ wr' = NoWrite
    /\ UNCHANGED <<cpu, last, fault, steps, arg, res, mem, cart, timer, gpu, dev, emu, registers>>

NextMemory == LoadRom \/ Write \/ Read

SpecMemory == InitMemory /\ [][NextMemory]_vars

(***************************************************************************)
(* Claims about the pure functions and the Memory.                         *)
(***************************************************************************)

\* C2: for all enable and request masks the interrupt selected is the lowest
\* bit among 0..4 set in both; none is selected iff (enable & request & 0x1F)
\* is zero, so bits 5..7 never select; highest_pending_interrupt agrees with
\* the bit the engine's dispatch acknowledges and vectors to.
C2_SelectsLowestPendingBit ==
    res.fn = "irq" =>
        LET p == Pending(arg.enable, arg.request)
        IN  /\ (res.helper = <<>>) <=> (p = 0)
            /\ (res.engine.n = 0) <=> (p = 0)
            /\ p # 0 =>
                 /\ res.helper = <<LowestBit(p)>>
                 /\ res.engine.pc = \h40 + 8 * LowestBit(p)
                 /\ res.engine.intf = arg.request - Pow2(LowestBit(p))

\* request 0b00010011 with every bit enabled selects VBlank in both places
C2_Witness ==
    /\ res.fn = "irq"
    /\ arg.enable = \hFF /\ arg.request = \h13
    /\ res.helper = <<0>>
    /\ res.engine.pc = \h40

UndefinedOpcodes ==
    {\hD3, \hDB, \hDD, \hE3, \hE4, \hEB, \hEC, \hED, \hF4, \hFC, \hFD}

\* the table half of C7: fatal handler iff undefined opcode; no prefixed byte
\* is fatal
FallbackIffUndefined ==
    res.fn = "table" =>
        /\ arg.table = "main" =>
             ((res.handler = "op_fallback") <=> (arg.byte \in UndefinedOpcodes))
        /\ arg.table = "cb" => (res.handler # "op_fallback" /\ res.fault = NoFault)
        /\ (res.handler = "op_fallback") <=> (res.fault # NoFault)

\* C7: an opcode byte reaches the fatal handler iff it is one of the 11
\* undefined opcodes, every prefixed second byte is non-fatal, and the fatal
\* handler's diagnostic names both the opcode and the program counter.
C7_FatalDiagnosticNamesOpcodeAndPc ==
    /\ FallbackIffUndefined
    /\ (res.fn = "table" /\ res.fault # NoFault) =>
         /\ \E i \in DOMAIN res.fault.args : res.fault.args[i] = arg.byte
         /\ \E i \in DOMAIN res.fault.args :
              res.fault.args[i] \in {res.pc, wrap16(res.pc - 1)}

\* the slots of the groups that have register and (HL) forms
InLdGroup(a)  == a.table = "main" /\ a.byte \in \h40..\h7F /\ a.byte # \h76
InAluGroup(a) == a.table = "main" /\ a.byte \in \h80..\hBF
Group(a) ==
    IF InLdGroup(a) THEN "ld"
    ELSE IF InAluGroup(a) THEN "alu"
    ELSE IF a.table = "cb" THEN CB_TABLE(a.byte)
    ELSE "other"

\* source or destination operand is (HL)
HlForm(a) ==
    \/ a.byte % 8 = 6
    \/ InLdGroup(a) /\ (a.byte \div 8) % 8 = 6

\* C9: in the LD r,r', ALU A,r and prefixed rotate/shift, BIT, RES, SET
\* groups every (HL) form returns a strictly larger cost than every
\* register-only form of its group; LD r,(HL) and LD (HL),r cost 2 and
\* LD r,r' costs 1.
C9_IndirectFormsCostMore ==
    (res.fn = "table" /\ Group(arg) # "other") =>
        /\ HlForm(arg) =>
             \A b \in Byte :
                LET o == [arg EXCEPT !.byte = b]
                IN  (Group(o) = Group(arg) /\ ~HlForm(o)) =>
                        res.cycles > TableCycles(o.table, b)
        /\ InLdGroup(arg) => res.cycles = (IF HlForm(arg) THEN 2 ELSE 1)

\* the same comparison without the loads from (HL): every other (HL) form is
\* strictly costlier
IndirectFormsCostMoreExceptLoads ==
    (res.fn = "table" /\ Group(arg) # "other"
        /\ ~(InLdGroup(arg) /\ arg.byte % 8 = 6)) =>
        /\ HlForm(arg) =>
             \A b \in Byte :
                LET o == [arg EXCEPT !.byte = b]
                IN  (Group(o) = Group(arg) /\ ~HlForm(o)) =>
                        res.cycles > TableCycles(o.table, b)
        /\ InLdGroup(arg) => res.cycles = (IF HlForm(arg) THEN 2 ELSE 1)

\* C10: on a banked-controller cartridge with ROM bank b active a read at
\* 0x4000 + k returns the image's byte at b * 0x4000 + k, and a read below
\* 0x4000 returns the image's byte at that offset.
C10_BankedReadReturnsActiveBank ==
    (rd.addr # -1 /\ mem.mbc_type # "None") =>
        /\ rd.addr <= \h3FFF => rd.val = RomData(cart, rd.addr)
        /\ (rd.addr \in \h4000..\h7FFF
              /\ mem.rom_bank * \h4000 + (rd.addr - \h4000) < cart.len) =>
             rd.val = RomData(cart, mem.rom_bank * \h4000 + (rd.addr - \h4000))

\* the fixed window alone
FixedWindowReadsImage ==
    (rd.addr # -1 /\ mem.mbc_type # "None" /\ rd.addr <= \h3FFF) =>
        rd.val = RomData(cart, rd.addr)

\* the switchable window always shows the image's second 16 KiB
SwitchableWindowShowsBankOne ==
    (rd.addr \in \h4000..\h7FFF /\ mem.mbc_type # "None") =>
        rd.val = RomData(cart, rd.addr)

(***************************************************************************)
(* Claims about the bank controller and the external RAM.                  *)
(***************************************************************************)
\* the low five bits of a bank index
Low5(b) == BitAnd(b, \h1F)

\* the loaded image's header names the implemented banked family
Banked == cart.type \in \h01..\h03

\* the four fields of the bank-controller state
Ctl(m) == <<m.rom_bank, m.ram_bank, m.ram_enabled, m.banking_mode>>

\* C11: on the banked family the active ROM bank index is never 0: a write
\* to 0x2000-0x3FFF whose low five bits are zero selects low bits 1, a write
\* to 0x4000-0x5FFF keeps the low five bits, and the low five bits are
\* non-zero after every step.
C11_RomBankNeverZero ==
    [][ Banked' =>
          /\ mem'.rom_bank # 0
          /\ Low5(mem'.rom_bank) # 0
          /\ (wr'.addr \in \h2000..\h3FFF /\ Low5(wr'.val) = 0) => Low5(mem'.rom_bank) = 1
          /\ wr'.addr \in \h4000..\h5FFF => Low5(mem'.rom_bank) = Low5(mem.rom_bank)
      ]_vars

\* C11 witness: 0x00 was written to 0x2000 while the upper bits were 01; the
\* bank is 0x21, not 0x20.
C11_Witness ==
    /\ Banked
    /\ wr = [addr |-> \h2000, val |-> \h00]
    /\ mem.rom_bank = \h21

\* C12: the active ROM bank index is always smaller than the number of
\* 16 KiB banks of the loaded image.
C12_RomBankWithinImage ==
    cart # NoCart => mem.rom_bank < cart.len \div \h4000

\* C13: on the banked family a write of v to 0x4000-0x5FFF sets ROM-bank
\* bits 5-6 to v & 3 and keeps the RAM bank when the banking mode is 0, sets
\* the RAM bank to v & 3 and keeps the ROM bank when it is 1; a write of v to
\* 0x6000-0x7FFF sets the banking mode to v & 1 and changes neither bank.
C13_UpperBitsAndModeWrites ==
    [][ Banked =>
          /\ (wr'.addr \in \h4000..\h5FFF /\ mem.banking_mode = 0) =>
                /\ mem'.rom_bank = Low5(mem.rom_bank) + 32 * (wr'.val % 4)
                /\ mem'.ram_bank = mem.ram_bank
          /\ (wr'.addr \in \h4000..\h5FFF /\ mem.banking_mode = 1) =>
                /\ mem'.ram_bank = wr'.val % 4
                /\ mem'.rom_bank = mem.rom_bank
          /\ wr'.addr \in \h6000..\h7FFF =>
                /\ mem'.banking_mode = wr'.val % 2
                /\ mem'.rom_bank = mem.rom_bank
                /\ mem'.ram_bank = mem.ram_bank
      ]_vars

\* C13 witness: in banking mode 1 the write of 0x21 to 0x4000 selected RAM
\* bank 1 and left the ROM bank (upper bits 10 from an earlier write) alone.
C13_Witness ==
    /\ Banked
    /\ wr = [addr |-> \h4000, val |-> \h21]
    /\ mem.banking_mode = 1
    /\ mem.ram_bank = 1
    /\ mem.rom_bank \div 32 = 2

\* C14: on the banked family the RAM-enabled flag is false when the image is
\* loaded, a write to 0x0000-0x1FFF makes it true iff the value's low nibble
\* is 0xA, and no other step changes it.
C14_RamEnableFollowsLastWrite ==
    [][ Banked' =>
          /\ cart = NoCart => ~mem'.ram_enabled
          /\ wr'.addr \in \h0000..\h1FFF => (mem'.ram_enabled <=> (wr'.val % 16 = \h0A))
          /\ wr'.addr \notin \h0000..\h1FFF => (mem'.ram_enabled <=> mem.ram_enabled)
      ]_vars

\* C14 witness: the RAM is still enabled after 0x00 was written to 0x2000.
C14_Witness ==
    /\ Banked
    /\ wr = [addr |-> \h2000, val |-> \h00]
    /\ mem.ram_enabled

\* C15: the bank-controller state changes only in a write to 0x0000-0x7FFF
\* on a cartridge of the implemented banked family.
C15_ControllerStateFrame ==
    [][ Ctl(mem') # Ctl(mem) => (wr'.addr \in \h0000..\h7FFF /\ Banked) ]_vars

\* C15 witness: a bank-register write on a recognised but unimplemented
\* family (header 0x13) has left the controller state as constructed.
C15_Witness ==
    /\ cart.type = \h13
    /\ wr = [addr |-> \h2000, val |-> \h0A]
    /\ Ctl(mem) = Ctl(NewMemory)

\* C16: a write to 0x0000-0x7FFF is never stored as data: whatever was
\* written, a read below 0x4000 returns the image's byte, and so does a read
\* in 0x4000-0x7FFF while the bank selection is the one made at load.
C16_RomWritesNotStored ==
    /\ rd.addr \in \h0000..\h3FFF => rd.val = RomData(cart, rd.addr)
    /\ (rd.addr \in \h4000..\h7FFF /\ mem.rom_bank = 1) => rd.val = RomData(cart, rd.addr)

\* the same for the cartridges with a controller
RomWritesNotStoredWithController ==
    cart.type # \h00 => C16_RomWritesNotStored

\* C17: while the RAM-enabled flag is false a read in 0xA000-0xBFFF returns
\* 0xFF and a write there changes nothing; the external RAM changes only in
\* a write there with the flag true, and with the flag true a read returns
\* the byte stored.
C17_DisabledRamIsInert ==
    [][ /\ (rd'.addr \in \hA000..\hBFFF /\ ~mem'.ram_enabled) => rd'.val = \hFF
        /\ (wr'.addr \in \hA000..\hBFFF /\ ~mem.ram_enabled) => mem' = mem
        /\ mem'.external_ram # mem.external_ram =>
              (wr'.addr \in \hA000..\hBFFF /\ mem.ram_enabled)
        /\ (rd'.addr \in \hA000..\hBFFF /\ mem'.ram_enabled) =>
              rd'.val = Cell(mem'.external_ram, rd'.addr - \hA000)
      ]_vars

\* C17 witness: a read of 0xA000 with the RAM disabled returned 0xFF while
\* the byte 0x21 written earlier is still stored.
C17_Witness ==
    /\ rd = [addr |-> \hA000, val |-> \hFF]
    /\ ~mem.ram_enabled
    /\ Cell(mem.external_ram, 0) = \h21

(***************************************************************************)
(* Specification of the Memory's RAM regions: work RAM and its echo, the   *)
(* DMA register and object attribute memory.                               *)
(***************************************************************************)
RegionWriteAddrs == {\hC000, \hDDFF, \hE000, \hFF46}

RegionValues == {\h21, \hC0, \hFF}

RegionReadAddrs == {\hC000, \hDDFF, \hE000, \hFDFF, \hFE00, \hFF46}

WriteRegion ==
    /\ cart # NoCart
    /\ \E addr \in RegionWriteAddrs, v \in RegionValues :
         /\ mem' = write_byte(mem, cart, addr, v)
         /\ wr' = [addr |-> addr, val |-> v]
    /\ rd' = NoRead
    /\ UNCHANGED <<cpu, last, fault, steps, arg, res, cart, timer, gpu, dev, emu, registers>>

ReadRegion ==
    /\ cart # NoCart
    /\ \E addr \in RegionReadAddrs :
         rd' = [addr |-> addr, val |-> read_byte(mem, cart, addr)]
    /\ wr' = NoWrite
    /\ UNCHANGED <<cpu, last, fault, steps, arg, res, mem, cart, timer, gpu, dev, emu, registers>>

NextRegions == LoadRom \/ WriteRegion \/ ReadRegion

SpecRegions == InitMemory /\ [][NextRegions]_vars

(***************************************************************************)
(* Claims about the RAM regions.                                           *)
(***************************************************************************)
\* echo addresses probed in every state: both ends of the range and one inside
EchoProbes == {\hE000, \hE09F, \hFDFF}

\* nothing but the work-RAM cell i has changed
OnlyWramCell(i) ==
    /\ [mem' EXCEPT !.wram = mem.wram] = mem
    /\ \A k \in (DOMAIN mem.wram) \cup (DOMAIN mem'.wram) :
          k # i => Cell(mem'.wram, k) = Cell(mem.wram, k)

\* C18: for every echo address a, read(a) = read(a - 0x2000); a write to an
\* echo address is observable at a - 0x2000, a write to 0xC000-0xDDFF is
\* observable at its echo address, and neither changes any other region.
C18_EchoAliasesWorkRam ==
    [][ /\ \A a \in EchoProbes :
             read_byte(mem', cart', a) = read_byte(mem', cart', a - \h2000)
        /\ rd'.addr \in \hE000..\hFDFF =>
             rd'.val = read_byte(mem', cart', rd'.addr - \h2000)
        /\ wr'.addr \in \hE000..\hFDFF =>
             /\ read_byte(mem', cart', wr'.addr - \h2000) = wr'.val
             /\ OnlyWramCell(wr'.addr - \hE000)
        /\ wr'.addr \in \hC000..\hDDFF =>
             /\ read_byte(mem', cart', wr'.addr + \h2000) = wr'.val
             /\ OnlyWramCell(wr'.addr - \hC000)
      ]_vars

\* C18 witness: 0xFDFF, read after a write to 0xDDFF, returned the byte written.
C18_Witness ==
    /\ rd = [addr |-> \hFDFF, val |-> \hC0]
    /\ Cell(mem.wram, \h1DFF) = \hC0

\* nothing but object attribute memory and the DMA register has changed
OnlyOamAndDmaRegister ==
    /\ [mem' EXCEPT !.oam = mem.oam, !.io_registers = mem.io_registers] = mem
    /\ \A k \in (DOMAIN mem.io_registers) \cup (DOMAIN mem'.io_registers) :
          k # \h46 => Cell(mem'.io_registers, k) = Cell(mem.io_registers, k)

\* C19: a write of v to 0xFF46 leaves, for every i in 0..159, the byte that
\* read((v << 8) + i) returned before the write in object attribute memory
\* at 0xFE00 + i, leaves v in the DMA register, and changes nothing else.
C19_DmaCopiesSourceAsBeforeWrite ==
    [][ wr'.addr = \hFF46 =>
          /\ \A i \in 0..159 :
                read_byte(mem', cart, \hFE00 + i) = read_byte(mem, cart, wr'.val * 256 + i)
          /\ read_byte(mem', cart, \hFF46) = wr'.val
          /\ OnlyOamAndDmaRegister
      ]_vars

\* the same for every source page but the I/O page, which holds the DMA
\* register itself
DmaCopiesSourceOutsideIoPage ==
    [][ (wr'.addr = \hFF46 /\ wr'.val # \hFF) =>
          /\ \A i \in 0..159 :
                read_byte(mem', cart, \hFE00 + i) = read_byte(mem, cart, wr'.val * 256 + i)
          /\ read_byte(mem', cart, \hFF46) = wr'.val
          /\ OnlyOamAndDmaRegister
      ]_vars

(***************************************************************************)
(* Specification of the Timer: TAC and TIMA are set up, then tick is       *)
(* called with cycle counts until MaxCycles cycles have been given.        *)
(***************************************************************************)
MaxCycles == 1100

TimerControls == {\h01, \h04, \h05, \h06, \h07}

TimerStarts == {\h00, \hFE}

TimerModulos == {\h00, \h7F}

RequestStarts == {\h00, \h01}

TickCycles == {4, 12, 24}

InitTimer ==
    /\ EngineIdle
    /\ FnIdle
    /\ TimerIdle
    /\ GpuIdle
    /\ DevIdle
    /\ EmuIdle
    /\ RegistersIdle
    /\ cart = NoCart /\ rd = NoRead /\ wr = NoWrite
    /\ \E tac \in TimerControls, tima \in TimerStarts,
          tma \in TimerModulos, iflag \in RequestStarts :
         mem = write_byte(write_byte(write_byte(write_byte(NewMemory,
                    NoCart, \hFF07, tac), NoCart, \hFF05, tima),
                    NoCart, \hFF06, tma), NoCart, \hFF0F, iflag)

Tick ==
    /\ \E cycles \in TickCycles :
         /\ timer.total + cycles <= MaxCycles
         /\ LET t == tick(timer.div_counter, mem, cycles)
            IN  /\ mem' = t.mem
                /\ timer' = [div_counter |-> t.div_counter,
                             total |-> timer.total + cycles,
                             increments |-> timer.increments + (IF t.advanced THEN 1 ELSE 0)]
    /\ UNCHANGED <<cpu, last, fault, steps, arg, res, cart, rd, wr, gpu, dev, emu, registers>>

NextTimer == Tick

SpecTimer == InitTimer /\ [][NextTimer]_vars

\* the rate field of TAC
RateField == BitAnd(Cell(mem.io_registers, \h07), \h03)

\* the cycles per TIMA increment the claim names for each rate
ClaimedThreshold(r) ==
    CASE r = 0 -> 1024 [] r = 1 -> 16 [] r = 2 -> 64 [] r = 3 -> 256

\* C20: with the timer enabled and the rate field r constant, after N total
\* cycles given to tick TIMA has advanced floor(N / threshold(r)) times
\* (reloads counted), threshold being 1024, 16, 64, 256 for r = 0, 1, 2, 3.
C20_TimaAdvancesPerThreshold ==
    BitAnd(Cell(mem.io_registers, \h07), \h04) # 0 =>
        timer.increments = timer.total \div ClaimedThreshold(RateField)

\* at rate 3 (256 cycles) the count is exact
TimaExactAtRateThree ==
    RateField = 3 => timer.increments = timer.total \div 256

\* at rate 0 (1024 cycles) TIMA never advances
TimaStuckAtRateZero ==
    RateField = 0 => timer.increments = 0

\* 1024 cycles have been given at rate 0
RateZeroFullPeriod ==
    RateField = 0 /\ timer.total >= 1024

\* C21: a tick that advances TIMA from 0xFF reloads it with TMA and sets bit
\* 2 of the request register, keeping the other request bits; any other tick
\* leaves the request register alone; DIV is the high byte of the 16-bit sum
\* of all cycles ticked, with the timer enabled or not.
C21_OverflowReloadsAndRequests ==
    [][ LET io   == mem.io_registers
            io2  == mem'.io_registers
            over == timer'.increments = timer.increments + 1 /\ Cell(io, \h05) = \hFF
        IN  /\ over =>
                 /\ Cell(io2, \h05) = Cell(io, \h06)
                 /\ Cell(io2, \h0F) = BitOr(Cell(io, \h0F), 4)
            /\ ~over => Cell(io2, \h0F) = Cell(io, \h0F)
            /\ Cell(io2, \h06) = Cell(io, \h06)
            /\ Cell(io2, \h04) = (timer'.total % 65536) \div 256
      ]_vars

\* C21 witness: TIMA holds the reload value 0x7F, the Timer bit is set and
\* the VBlank bit requested before is still set.
C21_Witness ==
    /\ Cell(mem.io_registers, \h05) = \h7F
    /\ Cell(mem.io_registers, \h06) = \h7F
    /\ Cell(mem.io_registers, \h0F) = \h05
    /\ timer.increments = 2

\* the divider has advanced although the timer is disabled
DividerRunsWhileDisabled ==
    /\ BitAnd(Cell(mem.io_registers, \h07), \h04) = 0
    /\ Cell(mem.io_registers, \h04) = 4

(***************************************************************************)
(* The pixel processor stepped over the Memory, with the CPU free to       *)
(* write LY (0xFF44) early in the run.                                     *)
(***************************************************************************)

\* cycles given to the pixel processor: a little over two frames
MaxGpuCycles == 136800

\* the CPU writes LY only within the first line
MaxWriteCycles == 100

GpuCycles == {96, 240}

StatStarts == {\h00, \h47}

LineValues == {143, 200}

InitGpu ==
    /\ EngineIdle
    /\ FnIdle
    /\ TimerIdle
    /\ GpuIdle
    /\ DevIdle
    /\ EmuIdle
    /\ RegistersIdle
    /\ cart = NoCart /\ rd = NoRead /\ wr = NoWrite
    /\ \E stat \in StatStarts : mem = write_byte(NewMemory, NoCart, \hFF41, stat)

GpuStep ==
    /\ \E cycles \in GpuCycles :
         /\ gpu.total + cycles <= MaxGpuCycles
         /\ LET s == step(gpu, mem, cycles)
                lines == gpu.lines + (IF s.carry THEN 1 ELSE 0)
            IN  /\ mem' = s.mem
                /\ gpu' = [gpu EXCEPT
                             !.scanline_counter = s.scanline_counter,
                             !.mode = s.mode,
                             !.total = @ + cycles,
                             !.lines = lines,
                             !.raisings = @ + (IF s.vblank THEN 1 ELSE 0),
                             !.raised_lines = IF s.vblank THEN lines ELSE @,
                             !.raised_cycles = IF s.vblank
                                               THEN gpu.total + cycles - s.scanline_counter
                                               ELSE @,
                             !.raised_total = IF s.vblank THEN gpu.total + cycles ELSE @]
    /\ UNCHANGED <<cpu, last, fault, steps, arg, res, cart, rd, wr, timer, dev, emu, registers>>

WriteLine ==
    /\ ~gpu.written
    /\ gpu.total <= MaxWriteCycles
    /\ \E value \in LineValues :
         /\ mem' = write_byte(mem, NoCart, \hFF44, value)
         /\ gpu' = [gpu EXCEPT !.written = TRUE]
    /\ UNCHANGED <<cpu, last, fault, steps, arg, res, cart, rd, wr, timer, dev, emu, registers>>

NextGpu == GpuStep \/ WriteLine

SpecGpu == InitGpu /\ [][NextGpu]_vars

Ly(m) == Cell(m.io_registers, \h44)

\* C22 as stated: with no CPU write to LY, a step raises the VBlank request
\* exactly when it moves LY from 143 to 144 and leaves the request register
\* alone otherwise, and two consecutive raising steps are 154 line increments
\* and 154*456 given cycles apart.
C22_VBlankOncePerFrameAsStated ==
    [][ (gpu'.total # gpu.total /\ ~gpu.written) =>
          LET entering == Ly(mem) = 143 /\ Ly(mem') = 144
              iflag  == Cell(mem.io_registers, \h0F)
              iflag2 == Cell(mem'.io_registers, \h0F)
          IN  /\ (gpu'.raisings = gpu.raisings + 1) <=> entering
              /\ gpu'.raisings \in {gpu.raisings, gpu.raisings + 1}
              /\ entering => iflag2 = BitOr(iflag, 1)
              /\ ~entering => iflag2 = iflag
              /\ (entering /\ gpu.raisings > 0) =>
                    /\ gpu'.lines - gpu.raised_lines = 154
                    /\ gpu'.total - gpu.raised_total = 154 * 456
      ]_vars

\* C22 amended: as above, but the cycles are counted net of what is left in
\* the per-line counter after each raising step; the cycles given between two
\* raising steps differ from 154*456 by the difference of those two
\* remainders.
C22_VBlankOncePerFrame ==
    [][ (gpu'.total # gpu.total /\ ~gpu.written) =>
          LET entering == Ly(mem) = 143 /\ Ly(mem') = 144
              iflag  == Cell(mem.io_registers, \h0F)
              iflag2 == Cell(mem'.io_registers, \h0F)
          IN  /\ (gpu'.raisings = gpu.raisings + 1) <=> entering
              /\ gpu'.raisings \in {gpu.raisings, gpu.raisings + 1}
              /\ entering => iflag2 = BitOr(iflag, 1)
              /\ ~entering => iflag2 = iflag
              /\ (entering /\ gpu.raisings > 0) =>
                    /\ gpu'.lines - gpu.raised_lines = 154
                    /\ gpu'.raised_cycles - gpu.raised_cycles = 154 * 456
                    /\ gpu'.raised_cycles = gpu'.total - gpu'.scanline_counter
                    /\ gpu.raised_cycles < gpu.raised_total + 1
                    /\ gpu.raised_total - gpu.raised_cycles < 456
      ]_vars

\* C22 witness: the second VBlank request of an undisturbed run
C22_Witness == gpu.raisings = 2 /\ ~gpu.written /\ Ly(mem) = 144

\* C23: after every pixel-processor step the per-line counter is below 456,
\* LY is in 0..153, the two low STAT bits equal the mode, the mode is 1 iff
\* LY >= 144 and otherwise 2, 3 or 0 by the counter being below 80, below 252
\* or not, and within one visible line the mode only moves forward through
\* 2, 3, 0.
ModeRank(mode) == IF mode = 2 THEN 0 ELSE IF mode = 3 THEN 1 ELSE 2

AfterStepShape(g, m) ==
    /\ g.scanline_counter < 456
    /\ BitAnd(Cell(m.io_registers, \h41), \h03) = g.mode
    /\ (g.mode = 1) <=> (Ly(m) >= 144)
    /\ Ly(m) < 144 =>
          g.mode = (IF g.scanline_counter < 80 THEN 2
                    ELSE IF g.scanline_counter < 252 THEN 3 ELSE 0)

C23_StepInvariants ==
    [][ gpu'.total # gpu.total =>
          /\ AfterStepShape(gpu', mem')
          /\ Ly(mem') \in 0..153
          /\ (gpu'.lines = gpu.lines /\ Ly(mem') < 144 /\ gpu.total > 0) =>
                ModeRank(gpu.mode) <= ModeRank(gpu'.mode)
      ]_vars

\* what holds of every step, CPU writes to LY included: everything above but
\* the range of LY
StepInvariantsButLineRange ==
    [][ gpu'.total # gpu.total =>
          /\ AfterStepShape(gpu', mem')
          /\ (gpu'.lines = gpu.lines /\ Ly(mem') = Ly(mem) /\ Ly(mem') < 144 /\ gpu.total > 0) =>
                ModeRank(gpu.mode) <= ModeRank(gpu'.mode)
      ]_vars

\* with LY left to the pixel processor it stays in 0..153
LineInRangeUnwritten == ~gpu.written => Ly(mem) \in 0..153

\* a step has run after the CPU stored 200 in LY, and LY is still 200
LineOutOfRangeAfterStep == gpu.written /\ gpu.total > 96 /\ Ly(mem) = 200

(***************************************************************************)
(* Save states (device.rs): the CPU aggregate encoded with bincode's       *)
(* fixed-width little-endian configuration, field by field in declaration  *)
(* order, written to save_state_<slot>.sav by a spawned thread and decoded *)
(* again on load.                                                          *)
(***************************************************************************)

u16le(v) == <<v % 256, v \div 256>>

u32le(v) == <<v % 256, (v \div 256) % 256, (v \div 65536) % 256, v \div 16777216>>

u64le(v) == u32le(v) \o <<0, 0, 0, 0>>

encode_bool(b) == <<IF b THEN 1 ELSE 0>>

\* the register file: eight bytes and two words
encode_reg(r) ==
    <<r.a, r.f, r.b, r.c, r.d, r.e, r.h, r.l>> \o u16le(r.pc) \o u16le(r.sp)

\* the written cells in ascending address order, three bytes each
RECURSIVE encode_cells(_, _)
encode_cells(cells, addrs) ==
    IF addrs = {} THEN <<>>
    ELSE LET a == CHOOSE x \in addrs : \A y \in addrs : x <= y
         IN  u16le(a) \o <<cells[a]>> \o encode_cells(cells, addrs \ {a})

\* the address space: IE, IF and the length-prefixed written cells
encode_mmu(m) ==
    <<m.inte, m.intf>> \o u64le(Cardinality(DOMAIN m.mem))
                       \o encode_cells(m.mem, DOMAIN m.mem)

\* the derived Serialize of CPU with its halt_bug field left out
encode_to_vec_without_halt_bug(c) ==
    encode_reg(c.reg) \o encode_mmu(c.mmu) \o encode_bool(c.halted)
        \o encode_bool(c.ime) \o u32le(c.setdi) \o u32le(c.setei)

\* bincode::serde::encode_to_vec(&self.cpu, config): the derived Serialize
\* of CPU, its seven fields in declaration order
encode_to_vec(c) ==
    encode_reg(c.reg) \o encode_mmu(c.mmu) \o encode_bool(c.halted)
        \o encode_bool(c.halt_bug) \o encode_bool(c.ime)
        \o u32le(c.setdi) \o u32le(c.setei)

le16(data, i) == data[i] + 256 * data[i + 1]

le32(data, i) == data[i] + 256 * data[i + 1] + 65536 * data[i + 2] + 16777216 * data[i + 3]

\* what a failed decode leaves in its local, never-returned value
NoCpu ==
    [reg |-> [a |-> 0, f |-> 0, b |-> 0, c |-> 0, d |-> 0, e |-> 0,
              h |-> 0, l |-> 0, pc |-> 0, sp |-> 0],
     mmu |-> [inte |-> 0, intf |-> 0, mem |-> <<>>],
     halted |-> FALSE, halt_bug |-> FALSE, ime |-> FALSE, setdi |-> 0, setei |-> 0]

decode_reg(data) ==
    [a |-> data[1], f |-> data[2], b |-> data[3], c |-> data[4], d |-> data[5],
     e |-> data[6], h |-> data[7], l |-> data[8],
     pc |-> le16(data, 9), sp |-> le16(data, 11)]

\* bincode::serde::decode_from_slice::<CPU, _>(&data, config): the derived
\* Deserialize of CPU; fails when the bytes run out, when a length does not
\* fit or when a flag byte is neither 0 nor 1; bytes after the last field are
\* ignored
decode_from_slice(data) ==
    LET fail == [ok |-> FALSE, cpu |-> NoCpu]
    IN  IF Len(data) < 22 THEN fail
        ELSE IF le32(data, 19) # 0 \/ data[18] >= 128 THEN fail
        ELSE
        LET n     == le32(data, 15)
            flags == 22 + 3 * n
        IN  IF Len(data) < flags + 11 THEN fail
            ELSE IF \E k \in 1..3 : data[flags + k] > 1 THEN fail
            ELSE
            [ok  |-> TRUE,
             cpu |-> [reg |-> decode_reg(data),
                      mmu |-> [inte |-> data[13], intf |-> data[14],
                               mem |-> [a \in {le16(data, 20 + 3 * k) : k \in 1..n} |->
                                          LET k == CHOOSE j \in 1..n : le16(data, 20 + 3 * j) = a
                                          IN  data[22 + 3 * k]]],
                      halted |-> data[flags + 1] = 1,
                      halt_bug |-> data[flags + 2] = 1,
                      ime |-> data[flags + 3] = 1,
                      setdi |-> le32(data, flags + 4),
                      setei |-> le32(data, flags + 8)]]

\* Device::save_state_slot: the value returned and the writer thread spawned
\* (encode_to_vec into a Vec cannot fail for this aggregate)
save_state_slot(c, slot) ==
    [result |-> "Ok", thread |-> [slot |-> slot, data |-> encode_to_vec(c), origin |-> c]]

\* Device::load_state_slot that keeps whatever the decoder produced
load_state_slot_keeps_failed_decode(c, files, slot) ==
    IF ~files[slot].exists
    THEN [cpu |-> c, result |-> "Save state file does not exist"]
    ELSE LET d == decode_from_slice(files[slot].data)
         IN  IF d.ok THEN [cpu |-> d.cpu, result |-> "Ok"]
             ELSE [cpu |-> d.cpu, result |-> "Failed to parse save state"]

\* Device::load_state_slot: the CPU aggregate after the call and the value
\* returned
load_state_slot(c, files, slot) ==
    IF ~files[slot].exists
    THEN [cpu |-> c, result |-> "Save state file does not exist"]
    ELSE LET d == decode_from_slice(files[slot].data)
         IN  IF d.ok THEN [cpu |-> d.cpu, result |-> "Ok"]
             ELSE [cpu |-> c, result |-> "Failed to parse save state"]

\* save and load calls made in one run
MaxCalls == 2

\* engine steps taken between them
MaxDeviceSteps == 2

DeviceCode == {<<\h76, \h00>>, <<\hE0, \h80>>, <<\hFB, \h00>>}

\* a file left by another program, and a snapshot with a flag byte of 2
ForeignFiles ==
    {[exists |-> TRUE, data |-> <<\h47, \h42, \h53>>, intact |-> FALSE, origin |-> InitCpu],
     [exists |-> TRUE, data |-> [encode_to_vec(InitCpu) EXCEPT ![23] = 2],
      intact |-> FALSE, origin |-> InitCpu]}

\* how a writer thread's std::fs::write ends: all bytes written, the file
\* not even created, or the file created and cut short
WriteOutcomes == {"written", "unchanged", "truncated"}

InitDevice ==
    /\ EngineIdle
    /\ FnIdle
    /\ MemoryIdle
    /\ TimerIdle
    /\ GpuIdle
    /\ EmuIdle
    /\ RegistersIdle
    /\ \E f \in ForeignFiles : dev = [NewDev EXCEPT !.files[1] = f]

\* Device::do_cycle between saves and loads
DeviceStep ==
    /\ fault = NoFault
    /\ steps < MaxDeviceSteps
    /\ \E code \in DeviceCode, data \in DataInputs, raised \in RaiseMasks :
         LET env == [base |-> cpu.reg.pc, code |-> code, data |-> data]
             r   == do_cycle(cpu, env, raised)
         IN  /\ cpu' = r.cpu
             /\ last' = Observe(cpu, r, last)
             /\ fault' = r.fault
             /\ steps' = steps + 1
    /\ UNCHANGED <<arg, res, mem, cart, rd, wr, timer, gpu, dev, emu, registers>>

SaveStateSlot ==
    /\ dev.op.seq < MaxCalls
    /\ \E slot \in Slots :
         LET r == save_state_slot(cpu, slot)
         IN  dev' = [dev EXCEPT
                       !.pending = @ \cup {[slot |-> slot, data |-> r.thread.data,
                                            origin |-> r.thread.origin,
                                            result |-> r.result]},
                       !.saved[slot] = IF r.result = "Ok"
                                       THEN [done |-> TRUE, cpu |-> cpu] ELSE @,
                       !.op = [name |-> "save", slot |-> slot, result |-> r.result,
                               seq |-> dev.op.seq + 1]]
    /\ UNCHANGED <<cpu, last, fault, steps, arg, res, mem, cart, rd, wr, timer, gpu, emu, registers>>

\* the spawned closure: std::fs::write(&save_path, &serialized_data)
WriterThread ==
    /\ \E t \in dev.pending, outcome \in WriteOutcomes :
         dev' = [dev EXCEPT
                   !.pending = @ \ {t},
                   !.wrote = [slot |-> t.slot, result |-> t.result,
                              outcome |-> outcome],
                   !.files[t.slot] =
                       IF outcome = "written"
                       THEN [exists |-> TRUE, data |-> t.data, intact |-> TRUE,
                             origin |-> t.origin]
                       ELSE IF outcome = "truncated"
                       THEN [exists |-> TRUE,
                             data |-> SubSeq(t.data, 1, Len(t.data) \div 2),
                             intact |-> FALSE, origin |-> t.origin]
                       ELSE @]
    /\ UNCHANGED <<cpu, last, fault, steps, arg, res, mem, cart, rd, wr, timer, gpu, emu, registers>>

LoadStateSlot ==
    /\ dev.op.seq < MaxCalls
    /\ \E slot \in Slots :
         LET r == load_state_slot(cpu, dev.files, slot)
         IN  /\ cpu' = r.cpu
             /\ dev' = [dev EXCEPT
                          !.op = [name |-> "load", slot |-> slot, result |-> r.result,
                                  seq |-> dev.op.seq + 1]]
    /\ UNCHANGED <<last, fault, steps, arg, res, mem, cart, rd, wr, timer, gpu, emu, registers>>

NextDevice == DeviceStep \/ SaveStateSlot \/ WriterThread \/ LoadStateSlot

SpecDevice == InitDevice /\ [][NextDevice]_vars

Loading == dev'.op.name = "load" /\ dev'.op.seq # dev.op.seq

\* C24: load_state_slot on a missing file or on a blob that does not decode
\* returns an error and leaves the CPU aggregate as it was; the aggregate
\* changes only on success, and then to one whole saved state.
C24_FailedLoadLeavesStateUntouched ==
    [][ Loading =>
          LET f == dev.files[dev'.op.slot]
          IN  /\ (~f.exists \/ ~f.intact) => dev'.op.result # "Ok"
              /\ ~f.exists <=> dev'.op.result = "Save state file does not exist"
              /\ dev'.op.result # "Ok" => cpu' = cpu
              /\ dev'.op.result = "Ok" => f.intact /\ cpu' = f.origin
      ]_vars

\* C24 witness: a load of a cut-short snapshot has failed on a CPU that has
\* moved on from power-on
C24_Witness ==
    /\ dev.op.name = "load"
    /\ dev.op.result = "Failed to parse save state"
    /\ dev.files[dev.op.slot].data # <<>>
    /\ dev.files[dev.op.slot].origin # InitCpu
    /\ cpu # InitCpu

C26_SaveReportsWriteFailure ==
    dev.wrote.outcome # "none" =>
        ((dev.wrote.result = "Ok") <=> (dev.wrote.outcome = "written"))

\* save_state_slot leaves the CPU aggregate alone, and so does its writer
\* thread
SaveLeavesCoreUnmodified ==
    [][ (dev'.op.name = "save" /\ dev'.op.seq # dev.op.seq) \/ dev'.wrote # dev.wrote
            => cpu' = cpu ]_vars

\* save_state_slot has returned before its snapshot is on disk
SaveReturnsBeforeWrite ==
    dev.op.name = "save" /\ dev.op.result = "Ok" /\ dev.pending # {}

\* C40: a load_state_slot(s) made after save_state_slot(s) returned Ok
\* succeeds and restores exactly the state that save was given, never an
\* older snapshot, a missing file or a cut-short file.
C40_LoadAfterSaveRestoresSaved ==
    [][ (Loading /\ dev.saved[dev'.op.slot].done) =>
          /\ dev'.op.result = "Ok"
          /\ cpu' = dev.saved[dev'.op.slot].cpu
      ]_vars

\* a load right after a successful save of the same slot has found no file
LoadAfterSaveFoundNoFile ==
    /\ dev.op.name = "load"
    /\ dev.saved[dev.op.slot].done
    /\ dev.op.result = "Save state file does not exist"
    /\ dev.pending # {}

\* a load made once the writer thread has written the whole snapshot restores
\* the state of the last save (for reference)
LoadAfterWriteRestoresSaved ==
    [][ (Loading /\ dev.saved[dev'.op.slot].done /\ dev.pending = {}
            /\ dev.wrote.slot = dev'.op.slot /\ dev.wrote.outcome = "written") =>
          /\ dev'.op.result = "Ok"
          /\ cpu' = dev.saved[dev'.op.slot].cpu
      ]_vars

(***************************************************************************)
(* The run loop (emulator.rs run_cpu, and the older one of main.rs): the   *)
(* emulation thread, the consumer of its frames and the sender of its      *)
(* control events.                                                         *)
(***************************************************************************)

\* mpsc::sync_channel(1) of gui.rs and main.rs
FrameChannelCapacity == 1

\* base_waitticks: (4_194_304f64 / 1000.0 * 16.0).round()
base_waitticks == 67109

Range(q) == {q[i] : i \in DOMAIN q}

\* Arc::get_mut succeeds: the buffer is neither queued nor with the consumer
Unshared(e, idx) == idx \notin Range(e.chan) /\ idx # e.held

\* sender.try_send on the bounded channel
try_send(e) ==
    IF ~e.rx_alive THEN "Disconnected"
    ELSE IF Len(e.chan) >= FrameChannelCapacity THEN "Full"
    ELSE "Ok"

\* the frame hand-off that treats a full channel as a closed one
frame_send_exits_when_full(e) ==
    LET first  == e.next_fb
        second == (e.next_fb + 1) % 2
    IN  IF ~Unshared(e, first) /\ ~Unshared(e, second)
        THEN [e EXCEPT !.outcome = "dropped"]
        ELSE LET idx == IF Unshared(e, first) THEN first ELSE second
                 w   == [e EXCEPT !.copied = idx]
                 r   == try_send(w)
             IN  IF r = "Ok"
                 THEN [w EXCEPT !.chan = Append(@, idx),
                                !.next_fb = (idx + 1) % 2,
                                !.outcome = "enqueued"]
                 ELSE [w EXCEPT !.outcome = "exit"]

\* a frame hand-off that copies into the next buffer of the pool whoever
\* holds it
frame_send_into_next_buffer(e) ==
    LET idx == e.next_fb
        w   == [e EXCEPT !.copied = idx]
        r   == try_send(w)
    IN  IF r = "Ok"
        THEN [w EXCEPT !.chan = Append(@, idx),
                       !.next_fb = (idx + 1) % 2,
                       !.outcome = "enqueued"]
        ELSE IF r = "Disconnected"
        THEN [w EXCEPT !.outcome = "exit"]
        ELSE [w EXCEPT !.outcome = "dropped"]

\* emulator.rs 61-77: copy the completed frame into the first unshared
\* buffer of the pool and try to send it
frame_send(e) ==
    LET first  == e.next_fb
        second == (e.next_fb + 1) % 2
    IN  IF ~Unshared(e, first) /\ ~Unshared(e, second)
        THEN [e EXCEPT !.outcome = "dropped"]
        ELSE LET idx == IF Unshared(e, first) THEN first ELSE second
                 w   == [e EXCEPT !.copied = idx]
                 r   == try_send(w)
             IN  IF r = "Ok"
                 THEN [w EXCEPT !.chan = Append(@, idx),
                                !.next_fb = (idx + 1) % 2,
                                !.outcome = "enqueued"]
                 ELSE IF r = "Disconnected"
                 THEN [w EXCEPT !.outcome = "exit"]
                 ELSE [w EXCEPT !.outcome = "dropped"]

\* main.rs 309-313: send a fresh copy of the completed frame
legacy_frame_send(e) ==
    LET r == try_send(e)
    IN  IF r = "Disconnected" THEN [e EXCEPT !.outcome = "exit"]
        ELSE IF r = "Ok" THEN [e EXCEPT !.chan = Append(@, -1), !.outcome = "enqueued"]
        ELSE [e EXCEPT !.outcome = "dropped"]

\* one pass of the inner while loop, and the end of the frame when the
\* budget is used up: the ticks do_cycle returned are added, a completed
\* frame is handed off
run_instruction(e, ticks, updated) ==
    LET e1 == [e EXCEPT !.ticks = @ + ticks, !.outcome = "none", !.copied = -1]
        e2 == IF ~updated THEN e1
              ELSE IF e.legacy THEN [legacy_frame_send(e1) EXCEPT !.frames = @ + 1]
              ELSE [frame_send(e1) EXCEPT !.frames = @ + 1]
    IN  IF e2.outcome = "exit" THEN [e2 EXCEPT !.pc = "exited"]
        ELSE IF e2.ticks < base_waitticks THEN e2
        ELSE [e2 EXCEPT !.ticks = @ - base_waitticks,
                        !.frame_count = @ + 1,
                        !.pc = "events"]

\* the match on the event received (keys go to the keypad, which is not part
\* of this model)
apply_event(e, c, d, ev) ==
    LET applied == [e EXCEPT !.applied = Append(@, ev.id), !.queue = Tail(@)]
    IN  IF ev.kind = "SpeedUp"
        THEN [emu |-> [applied EXCEPT !.limit_speed = FALSE], cpu |-> c, dev |-> d]
        ELSE IF ev.kind = "SpeedDown"
        THEN [emu |-> [applied EXCEPT !.limit_speed = TRUE], cpu |-> c, dev |-> d]
        ELSE IF ev.kind = "UpdateTurbo"
        THEN [emu |-> [applied EXCEPT !.turbo_setting = ev.arg], cpu |-> c, dev |-> d]
        ELSE IF ev.kind = "SaveState"
        THEN LET r == save_state_slot(c, ev.arg)
             IN  [emu |-> applied, cpu |-> c,
                  dev |-> [d EXCEPT
                             !.pending = @ \cup {[slot |-> ev.arg, data |-> r.thread.data,
                                                  origin |-> r.thread.origin,
                                                  result |-> r.result]},
                             !.saved[ev.arg] = IF r.result = "Ok"
                                               THEN [done |-> TRUE, cpu |-> c] ELSE @,
                             !.op = [name |-> "save", slot |-> ev.arg,
                                     result |-> r.result, seq |-> d.op.seq + 1]]]
        ELSE IF ev.kind = "LoadState"
        THEN LET r == load_state_slot(c, d.files, ev.arg)
             IN  [emu |-> applied, cpu |-> r.cpu,
                  dev |-> [d EXCEPT
                             !.op = [name |-> "load", slot |-> ev.arg,
                                     result |-> r.result, seq |-> d.op.seq + 1]]]
        ELSE [emu |-> applied, cpu |-> c, dev |-> d]

\* the 'recv loop that goes back to the frame after its first event
drain_step_one_event_per_frame(e, c, d) ==
    IF e.queue # <<>>
    THEN LET r == apply_event(e, c, d, Head(e.queue))
         IN  [r EXCEPT !.emu.pc = "frame"]
    ELSE IF e.tx_alive THEN [emu |-> [e EXCEPT !.pc = "frame"], cpu |-> c, dev |-> d]
    ELSE [emu |-> [e EXCEPT !.pc = "exited"], cpu |-> c, dev |-> d]

\* one pass of the 'recv loop: receiver.try_recv() and its three arms
drain_step(e, c, d) ==
    IF e.queue # <<>> THEN apply_event(e, c, d, Head(e.queue))
    ELSE IF e.tx_alive THEN [emu |-> [e EXCEPT !.pc = "frame"], cpu |-> c, dev |-> d]
    ELSE [emu |-> [e EXCEPT !.pc = "exited"], cpu |-> c, dev |-> d]

\* frames of emulation run
MaxFrames == 2

\* control events sent
MaxEvents == 2

\* ticks one Device::do_cycle call reports; the MMU that counts them is not
\* part of this model, and the amounts are taken large so that a frame's
\* budget is used up in a few calls
DoCycleTicks == {16778, 33556}

EventInputs ==
    {[kind |-> "SpeedUp", arg |-> 0], [kind |-> "SaveState", arg |-> 0],
     [kind |-> "LoadState", arg |-> 1]}

InitEmulator ==
    /\ EngineIdle
    /\ FnIdle
    /\ MemoryIdle
    /\ TimerIdle
    /\ GpuIdle
    /\ DevIdle
    /\ RegistersIdle
    /\ \E legacy \in BOOLEAN : emu = [NewEmu EXCEPT !.legacy = legacy]

\* the emulation thread inside a frame
RunInstruction ==
    /\ emu.pc = "frame"
    /\ \E ticks \in DoCycleTicks, updated \in BOOLEAN :
         emu' = run_instruction(emu, ticks, updated)
    /\ UNCHANGED <<cpu, last, fault, steps, arg, res, mem, cart, rd, wr, timer, gpu, dev, registers>>

\* the emulation thread at the frame boundary
DrainEvents ==
    /\ emu.pc = "events"
    /\ emu.queue = <<>> /\ emu.tx_alive => emu.frame_count < MaxFrames
    /\ LET r == drain_step(emu, cpu, dev)
       IN  /\ emu' = r.emu
           /\ cpu' = r.cpu
           /\ dev' = r.dev
    /\ UNCHANGED <<last, fault, steps, arg, res, mem, cart, rd, wr, timer, gpu, registers>>

\* the host sends a control event
SendEvent ==
    /\ emu.tx_alive
    /\ emu.sent < MaxEvents
    /\ \E ev \in EventInputs :
         emu' = [emu EXCEPT !.sent = @ + 1,
                            !.queue = Append(@, [id |-> emu.sent + 1,
                                                 kind |-> ev.kind, arg |-> ev.arg])]
    /\ UNCHANGED <<cpu, last, fault, steps, arg, res, mem, cart, rd, wr, timer, gpu, dev, registers>>

\* the host drops the control sender
HostDisconnect ==
    /\ emu.tx_alive
    /\ emu' = [emu EXCEPT !.tx_alive = FALSE]
    /\ UNCHANGED <<cpu, last, fault, steps, arg, res, mem, cart, rd, wr, timer, gpu, dev, registers>>

\* the consumer takes a frame off the channel and starts uploading it
FrameRecv ==
    /\ emu.rx_alive
    /\ emu.chan # <<>>
    /\ emu.held = -1
    /\ emu' = [emu EXCEPT !.held = Head(emu.chan), !.chan = Tail(@)]
    /\ UNCHANGED <<cpu, last, fault, steps, arg, res, mem, cart, rd, wr, timer, gpu, dev, registers>>

\* the consumer is done with the buffer it took
FrameDone ==
    /\ emu.held # -1
    /\ emu' = [emu EXCEPT !.held = -1]
    /\ UNCHANGED <<cpu, last, fault, steps, arg, res, mem, cart, rd, wr, timer, gpu, dev, registers>>

\* the consumer drops the frame receiver, and with it what was queued
FrameDisconnect ==
    /\ emu.rx_alive
    /\ emu.held = -1
    /\ emu' = [emu EXCEPT !.rx_alive = FALSE, !.chan = <<>>]
    /\ UNCHANGED <<cpu, last, fault, steps, arg, res, mem, cart, rd, wr, timer, gpu, dev, registers>>

NextEmulator ==
    \/ RunInstruction
    \/ DrainEvents
    \/ SendEvent
    \/ HostDisconnect
    \/ FrameRecv
    \/ FrameDone
    \/ FrameDisconnect

SpecEmulator == InitEmulator /\ [][NextEmulator]_vars

FrameCompleted == emu'.frames = emu.frames + 1

\* C27: the emulation thread can always run its next instruction whatever
\* the state of the frame channel; a completed frame is dropped when the
\* channel is full and emulation goes on, is enqueued when there is room,
\* and ends the run loop when the consumer has disconnected.
C27_FrameSendNeverBlocks ==
    /\ [](emu.pc = "frame" => ENABLED RunInstruction)
    /\ [][ FrameCompleted =>
             /\ emu.pc = "frame"
             /\ ~emu.rx_alive => emu'.pc = "exited"
             /\ (emu.rx_alive /\ Len(emu.chan) = FrameChannelCapacity) =>
                   /\ emu'.chan = emu.chan
                   /\ emu'.outcome = "dropped"
                   /\ emu'.pc \in {"frame", "events"}
             /\ (emu.rx_alive /\ Len(emu.chan) < FrameChannelCapacity) =>
                   /\ Len(emu'.chan) = Len(emu.chan) + 1
                   /\ emu'.outcome = "enqueued"
                   /\ emu'.pc \in {"frame", "events"}
       ]_vars

\* C27 witness: a frame was dropped on a full channel and the pool loop went
\* on into its next frame
C27_Witness ==
    /\ ~emu.legacy
    /\ emu.outcome = "dropped"
    /\ Len(emu.chan) = FrameChannelCapacity
    /\ emu.rx_alive
    /\ emu.frame_count = 1
    /\ emu.pc = "frame"

\* the older loop has dropped a frame on a full channel as well
LegacyFrameDropped ==
    emu.legacy /\ emu.outcome = "dropped" /\ emu.pc = "frame" /\ emu.frame_count = 1

\* the run loop has ended because the consumer went away
ExitedOnFrameDisconnect == emu.pc = "exited" /\ emu.outcome = "exit"

\* C28: an event is applied only at a frame boundary, the oldest queued
\* event first; the next frame starts only once the control channel is
\* empty; with the channel empty and its sender gone the run loop ends.
C28_EventsDrainedAtFrameBoundary ==
    [][ /\ emu'.applied # emu.applied =>
              /\ emu.pc = "events"
              /\ emu.queue # <<>>
              /\ emu'.applied = Append(emu.applied, Len(emu.applied) + 1)
              /\ Head(emu.queue).id = Len(emu.applied) + 1
              /\ emu'.queue = Tail(emu.queue)
              /\ emu'.ticks = emu.ticks
        /\ (emu.pc = "events" /\ emu'.pc = "frame") => emu.queue = <<>> /\ emu.tx_alive
        /\ (emu.pc = "events" /\ emu'.pc = "exited") => emu.queue = <<>> /\ ~emu.tx_alive
        /\ emu.pc = "frame" => emu'.applied = emu.applied
      ]_vars

\* C28 witness: both events sent were applied, in order, at a frame boundary
\* and the run loop has ended after the second frame, the sender gone
C28_Witness ==
    /\ emu.pc = "exited"
    /\ emu.frame_count = 2
    /\ emu.applied = <<1, 2>>
    /\ emu.sent = 2
    /\ ~emu.tx_alive
    /\ ~emu.limit_speed

\* C34: the pool loop copies a completed frame only into a buffer that is
\* neither queued in the channel nor with the consumer, and when both
\* buffers of the pool are shared the frame is skipped: nothing is copied
\* and nothing is sent.
C34_SharedBufferNeverOverwritten ==
    [][ (FrameCompleted /\ ~emu.legacy) =>
            /\ emu'.copied # -1 =>
                  /\ emu'.copied \notin Range(emu.chan)
                  /\ emu'.copied # emu.held
            /\ (\A idx \in {0, 1} : idx \in Range(emu.chan) \/ idx = emu.held) =>
                  /\ emu'.copied = -1
                  /\ emu'.outcome = "dropped"
                  /\ emu'.chan = emu.chan
                  /\ emu'.pc # "exited"
      ]_vars

\* C34 witness: a frame was skipped with one buffer queued and the other
\* with the consumer
C34_Witness ==
    /\ ~emu.legacy
    /\ emu.outcome = "dropped"
    /\ emu.copied = -1
    /\ emu.held # -1
    /\ emu.chan # <<>>
    /\ emu.held \notin Range(emu.chan)

\* a frame was copied into a free buffer and then dropped on a full channel
CopiedThenDropped ==
    ~emu.legacy /\ emu.outcome = "dropped" /\ emu.copied # -1 /\ emu.held = -1

(***************************************************************************)
(* The register file of cpu/registers.rs: pair accessors and flag updates. *)
(***************************************************************************)

shr8(value) == value \div 256

get_af(r) == r.a * 256 + r.f

\* set_af that stores the whole low byte in F
set_af_unmasked(r, value) ==
    [r EXCEPT !.a = shr8(value), !.f = BitAnd(value, \hFF)]

set_af(r, value) ==
    [r EXCEPT !.a = shr8(value), !.f = BitAnd(value, \hF0)]

get_bc(r) == r.b * 256 + r.c

set_bc(r, value) ==
    [r EXCEPT !.b = shr8(value), !.c = BitAnd(value, \hFF)]

get_de(r) == r.d * 256 + r.e

\* set_de that stores the two bytes the other way round
set_de_swapped(r, value) ==
    [r EXCEPT !.e = shr8(value), !.d = BitAnd(value, \hFF)]

set_de(r, value) ==
    [r EXCEPT !.d = shr8(value), !.e = BitAnd(value, \hFF)]

get_hl(r) == r.h * 256 + r.l

set_hl(r, value) ==
    [r EXCEPT !.h = shr8(value), !.l = BitAnd(value, \hFF)]

\* enum Flag
Flags == [Z |-> \h80, N |-> \h40, H |-> \h20, C |-> \h10]

set_flag(r, flag, value) ==
    IF value THEN [r EXCEPT !.f = BitOr(@, flag)]
    ELSE [r EXCEPT !.f = BitAnd(@, 255 - flag)]

\* CPU::init of cpu/mod.rs: the state after the boot ROM
init(r) ==
    [r EXCEPT !.a = \h01, !.f = \hB0, !.b = \h00, !.c = \h13, !.d = \h00,
              !.e = \hD8, !.h = \h01, !.l = \h4D, !.pc = \h0100, !.sp = \hFFFE]

Pairs == {"af", "bc", "de", "hl"}

set_pair(r, pair, value) ==
    IF pair = "af" THEN set_af(r, value)
    ELSE IF pair = "bc" THEN set_bc(r, value)
    ELSE IF pair = "de" THEN set_de(r, value)
    ELSE set_hl(r, value)

get_pair(r, pair) ==
    IF pair = "af" THEN get_af(r)
    ELSE IF pair = "bc" THEN get_bc(r)
    ELSE IF pair = "de" THEN get_de(r)
    ELSE get_hl(r)

\* every 16-bit value, each set into each pair of a fresh register file and
\* read back
InitPairs ==
    /\ EngineIdle
    /\ MemoryIdle
    /\ TimerIdle
    /\ GpuIdle
    /\ DevIdle
    /\ EmuIdle
    /\ RegistersIdle
    /\ res = NoRes
    /\ \E value \in 0..65535 : arg = [fn |-> "pair", value |-> value]

SetAndGet ==
    /\ res = NoRes
    /\ \E pair \in Pairs :
         /\ registers' = set_pair(registers, pair, arg.value)
         /\ res' = [fn |-> pair, value |-> get_pair(set_pair(registers, pair, arg.value), pair)]
    /\ UNCHANGED <<cpu, last, fault, steps, arg, mem, cart, rd, wr, timer, gpu, dev, emu>>

NextPairs == SetAndGet

SpecPairs == InitPairs /\ [][NextPairs]_vars

\* C29: a value set into BC, DE or HL reads back unchanged; a value set into
\* AF reads back with its low nibble cleared.
C29_PairRoundTrip ==
    res # NoRes =>
        /\ res.fn \in {"bc", "de", "hl"} => res.value = arg.value
        /\ res.fn = "af" => res.value = BitAnd(arg.value, \hFFF0)
        /\ get_pair(registers, res.fn) = res.value

\* C29 witness: 0xABCD went through DE
C29_Witness == res # NoRes /\ res.fn = "de" /\ arg.value = \hABCD /\ registers.d = \hAB

\* 0x12FF has been set into AF and read back as 0x12F0
AfReadsBackMasked == res # NoRes /\ res.fn = "af" /\ arg.value = \h12FF /\ res.value = \h12F0

\* POP AF of cpu.rs (op_pop_rr, 0xF1): the popped word is masked with 0xFFF0
\* before it goes to the pair setter
op_pop_rr_af(r, v) == set_af(r, BitAnd(v, \hFFF0))

\* POP AF of cpu/mod.rs: the popped word goes to set_af as it is
pop_af(r, val) == set_af(r, val)

\* register operations in one run
MaxRegOps == 3

PairValues == {\h0000, \h12FF, \hABCD}

StackValues == {\h000F, \hFFFF}

\* the register file as constructed; arg names the last operation and
\* counts the operations made
InitRegisters ==
    /\ EngineIdle
    /\ MemoryIdle
    /\ TimerIdle
    /\ GpuIdle
    /\ DevIdle
    /\ EmuIdle
    /\ RegistersIdle
    /\ res = NoRes
    /\ arg = [fn |-> "new", value |-> 0]

CpuInit ==
    /\ arg.value < MaxRegOps
    /\ registers' = init(registers)
    /\ arg' = [fn |-> "init", value |-> arg.value + 1]
    /\ UNCHANGED <<cpu, last, fault, steps, res, mem, cart, rd, wr, timer, gpu, dev, emu>>

SetFlag ==
    /\ arg.value < MaxRegOps
    /\ \E flag \in {Flags.Z, Flags.N, Flags.H, Flags.C}, value \in BOOLEAN :
         registers' = set_flag(registers, flag, value)
    /\ arg' = [fn |-> "set_flag", value |-> arg.value + 1]
    /\ UNCHANGED <<cpu, last, fault, steps, res, mem, cart, rd, wr, timer, gpu, dev, emu>>

SetPair ==
    /\ arg.value < MaxRegOps
    /\ \E pair \in Pairs, value \in PairValues :
         registers' = set_pair(registers, pair, value)
    /\ arg' = [fn |-> "set_pair", value |-> arg.value + 1]
    /\ UNCHANGED <<cpu, last, fault, steps, res, mem, cart, rd, wr, timer, gpu, dev, emu>>

PopAf ==
    /\ arg.value < MaxRegOps
    /\ \E v \in StackValues :
         \/ registers' = op_pop_rr_af(registers, v)
         \/ registers' = pop_af(registers, v)
    /\ arg' = [fn |-> "pop_af", value |-> arg.value + 1]
    /\ UNCHANGED <<cpu, last, fault, steps, res, mem, cart, rd, wr, timer, gpu, dev, emu>>

NextRegisters == CpuInit \/ SetFlag \/ SetPair \/ PopAf

SpecRegisters == InitRegisters /\ [][NextRegisters]_vars

\* C30: the low nibble of F is zero in every reachable state, whatever
\* flag updates, pair writes to AF and POP AF of arbitrary stack values have
\* been made since power-on.
C30_FlagsLowNibbleZero == BitAnd(registers.f, \h0F) = 0

\* C30 witness: POP AF of the stack word 0xFFFF has left A = 0xFF, F = 0xF0
C30_Witness == arg.fn = "pop_af" /\ registers.a = \hFF /\ registers.f = \hF0

(***************************************************************************)
(* The ALU of the engine (cpu.rs 154-313) and the two SP-relative          *)
(* instructions.  reg.flag, reg.hl and reg.sethl belong to the engine's    *)
(* register file: flag sets or clears one mask in F, hl and sethl combine  *)
(* and split H and L.                                                      *)
(***************************************************************************)
RECURSIVE BitXor(_, _)
BitXor(x, y) ==
    IF x = 0 THEN y
    ELSE IF y = 0 THEN x
    ELSE ((x + y) % 2) + 2 * BitXor(x \div 2, y \div 2)

flag(c, mask, value) ==
    [c EXCEPT !.reg.f = IF value THEN BitOr(@, mask) ELSE @ - BitAnd(@, mask)]

hl(c) == c.reg.h * 256 + c.reg.l

sethl(c, value) == [c EXCEPT !.reg.h = value \div 256, !.reg.l = value % 256]

\* an alu_add that takes the half carry from the whole sum
alu_add_half_from_sum(c, b, usec) ==
    LET cin == IF usec /\ getflag(c, Flags.C) THEN 1 ELSE 0
        a   == c.reg.a
        r   == (a + b + cin) % 256
        s1  == flag(c, Flags.Z, r = 0)
        s2  == flag(s1, Flags.H, a + b + cin > \h0F)
        s3  == flag(s2, Flags.N, FALSE)
        s4  == flag(s3, Flags.C, a + b + cin > \hFF)
    IN  [s4 EXCEPT !.reg.a = r]

alu_add(c, b, usec) ==
    LET cin == IF usec /\ getflag(c, Flags.C) THEN 1 ELSE 0
        a   == c.reg.a
        r   == (a + b + cin) % 256
        s1  == flag(c, Flags.Z, r = 0)
        s2  == flag(s1, Flags.H, BitAnd(a, \h0F) + BitAnd(b, \h0F) + cin > \h0F)
        s3  == flag(s2, Flags.N, FALSE)
        s4  == flag(s3, Flags.C, a + b + cin > \hFF)
    IN  [s4 EXCEPT !.reg.a = r]

alu_sub(c, b, usec) ==
    LET cin == IF usec /\ getflag(c, Flags.C) THEN 1 ELSE 0
        a   == c.reg.a
        r   == (a + 512 - b - cin) % 256
        s1  == flag(c, Flags.Z, r = 0)
        s2  == flag(s1, Flags.H, BitAnd(a, \h0F) < BitAnd(b, \h0F) + cin)
        s3  == flag(s2, Flags.N, TRUE)
        s4  == flag(s3, Flags.C, a < b + cin)
    IN  [s4 EXCEPT !.reg.a = r]

\* an alu_inc that raises the half carry when the low nibble of the result is 0xF
alu_inc_half_from_result(c, a) ==
    LET r  == (a + 1) % 256
        s1 == flag(c, Flags.Z, r = 0)
        s2 == flag(s1, Flags.H, BitAnd(r, \h0F) = \h0F)
        s3 == flag(s2, Flags.N, FALSE)
    IN  [r |-> r, cpu |-> s3]

alu_inc(c, a) ==
    LET r  == (a + 1) % 256
        s1 == flag(c, Flags.Z, r = 0)
        s2 == flag(s1, Flags.H, BitAnd(a, \h0F) + 1 > \h0F)
        s3 == flag(s2, Flags.N, FALSE)
    IN  [r |-> r, cpu |-> s3]

alu_dec(c, a) ==
    LET r  == (a + 255) % 256
        s1 == flag(c, Flags.Z, r = 0)
        s2 == flag(s1, Flags.H, BitAnd(a, \h0F) = 0)
        s3 == flag(s2, Flags.N, TRUE)
    IN  [r |-> r, cpu |-> s3]

alu_add16(c, b) ==
    LET a  == hl(c)
        r  == wrap16(a + b)
        s1 == flag(c, Flags.H, BitAnd(a, \h0FFF) + BitAnd(b, \h0FFF) > \h0FFF)
        s2 == flag(s1, Flags.N, FALSE)
        s3 == flag(s2, Flags.C, a > \hFFFF - b)
    IN  sethl(s3, r)

\* u8 as i8 as i16 as u16
signext(b) == IF b >= 128 THEN b + \hFF00 ELSE b

\* an alu_add16imm that takes the carry from the 16-bit sum
alu_add16imm_carry_from_word(c, a, env) ==
    LET f  == fetchbyte(c, env)
        b  == signext(f.b)
        s1 == flag(f.cpu, Flags.N, FALSE)
        s2 == flag(s1, Flags.Z, FALSE)
        s3 == flag(s2, Flags.H, BitAnd(a, \h000F) + BitAnd(b, \h000F) > \h000F)
        s4 == flag(s3, Flags.C, a + b > \hFFFF)
    IN  [r |-> wrap16(a + b), cpu |-> s4]

alu_add16imm(c, a, env) ==
    LET f  == fetchbyte(c, env)
        b  == signext(f.b)
        s1 == flag(f.cpu, Flags.N, FALSE)
        s2 == flag(s1, Flags.Z, FALSE)
        s3 == flag(s2, Flags.H, BitAnd(a, \h000F) + BitAnd(b, \h000F) > \h000F)
        s4 == flag(s3, Flags.C, BitAnd(a, \h00FF) + BitAnd(b, \h00FF) > \h00FF)
    IN  [r |-> wrap16(a + b), cpu |-> s4]

\* OPCODE_TABLE[0xE8], ADD SP,e
op_add_sp_e(c, op, env) ==
    LET s == alu_add16imm(c, c.reg.sp, env)
    IN  Ret([s.cpu EXCEPT !.reg.sp = s.r], 4, "exec", op)

\* LD HL,SP+e (0xF8)
op_ld_hl_sp_e(c, op, env) ==
    LET f  == fetchbyte(c, env)
        e  == signext(f.b)
        sp == f.cpu.reg.sp
        r  == wrap16(sp + e)
        x  == BitXor(BitXor(sp, e), r)
        s1 == flag(f.cpu, Flags.Z, FALSE)
        s2 == flag(s1, Flags.N, FALSE)
        s3 == flag(s2, Flags.H, BitAnd(x, \h10) # 0)
        s4 == flag(s3, Flags.C, BitAnd(x, \h100) # 0)
    IN  Ret(sethl(s4, r), 3, "exec", op)

\* a decimal adjust that looks at the accumulator only, never at H and C
alu_daa_ignores_flags(c) ==
    LET a0 == c.reg.a
        n  == getflag(c, Flags.N)
        d2 == IF ~n /\ BitAnd(a0, \h0F) > \h09 THEN \h06 ELSE \h00
        d3 == IF ~n /\ a0 > \h99 THEN BitOr(d2, \h60) ELSE d2
        a  == IF ~n THEN (a0 + d3) % 256 ELSE (a0 + 256 - d3) % 256
        s1 == flag(c, Flags.C, d3 >= \h60)
        s2 == flag(s1, Flags.H, FALSE)
        s3 == flag(s2, Flags.Z, a = 0)
    IN  [s3 EXCEPT !.reg.a = a]

alu_daa(c) ==
    LET a0 == c.reg.a
        n  == getflag(c, Flags.N)
        d0 == IF getflag(c, Flags.C) THEN \h60 ELSE \h00
        d1 == IF getflag(c, Flags.H) THEN BitOr(d0, \h06) ELSE d0
        d2 == IF ~n /\ BitAnd(a0, \h0F) > \h09 THEN BitOr(d1, \h06) ELSE d1
        d3 == IF ~n /\ a0 > \h99 THEN BitOr(d2, \h60) ELSE d2
        a  == IF ~n THEN (a0 + d3) % 256 ELSE (a0 + 256 - d3) % 256
        s1 == flag(c, Flags.C, d3 >= \h60)
        s2 == flag(s1, Flags.H, FALSE)
        s3 == flag(s2, Flags.Z, a = 0)
    IN  [s3 EXCEPT !.reg.a = a]

\* the prototype's INC and DEC (cpu/mod.rs), on its own register file
inc_8bit(r, value) ==
    LET result == (value + 1) % 256
        s1 == set_flag(r, Flags.Z, result = 0)
        s2 == set_flag(s1, Flags.N, FALSE)
        s3 == set_flag(s2, Flags.H, BitAnd(value, \h0F) = \h0F)
    IN  [result |-> result, registers |-> s3]

dec_8bit(r, value) ==
    LET result == (value + 255) % 256
        s1 == set_flag(r, Flags.Z, result = 0)
        s2 == set_flag(s1, Flags.N, TRUE)
        s3 == set_flag(s2, Flags.H, BitAnd(value, \h0F) = 0)
    IN  [result |-> result, registers |-> s3]

(***************************************************************************)
(* The ALU applied to its inputs: the accumulator is drawn at the start,   *)
(* the operand and the incoming flags by the operation.  res records what  *)
(* went in and what came out.                                              *)
(***************************************************************************)
AluFlags == {\h00, \hF0}

\* second operands of ADD HL,rr
AluWords == {\h0001, \h00FF, \h0100, \h0F01, \h1000, \h7FFF, \h8000, \hFFFF}

\* low bytes of HL, high bytes of SP
AluLows == {\h00, \h01, \hFF}

SpHighs == {\h00, \hFF}

\* operand bytes: every pairing of the nibbles 0, 1, 7, 8, 9 and 0xF
AluNibbles == {0, 1, 7, 8, 9, 15}

AluBytes == {hi * 16 + lo : hi \in AluNibbles, lo \in AluNibbles}

\* the packed BCD bytes 0x00 .. 0x99
BcdBytes == {hi * 16 + lo : hi \in 0..9, lo \in 0..9}

Out(c) == [a |-> c.reg.a, f |-> c.reg.f]

InitAlu ==
    /\ last = NoObs
    /\ fault = NoFault
    /\ steps = 0
    /\ MemoryIdle
    /\ TimerIdle
    /\ GpuIdle
    /\ DevIdle
    /\ EmuIdle
    /\ RegistersIdle
    /\ res = NoRes
    /\ \E a \in 0..255 :
         /\ arg = [fn |-> "alu", a |-> a]
         /\ cpu = [InitCpu EXCEPT !.reg.a = a]

\* INC A (0x3C) then DEC A (0x3D), on the engine and on the prototype
IncDec ==
    /\ res = NoRes
    /\ \E f \in AluFlags :
         LET c0 == [cpu EXCEPT !.reg.f = f]
             i  == alu_inc(c0, c0.reg.a)
             ci == [i.cpu EXCEPT !.reg.a = i.r]
             d  == alu_dec(ci, ci.reg.a)
             cd == [d.cpu EXCEPT !.reg.a = d.r]
             r0 == [registers EXCEPT !.a = arg.a, !.f = f]
             pi == inc_8bit(r0, r0.a)
             ri == [pi.registers EXCEPT !.a = pi.result]
             pd == dec_8bit(ri, ri.a)
             rd2 == [pd.registers EXCEPT !.a = pd.result]
         IN  /\ cpu' = cd
             /\ registers' = rd2
             /\ res' = [fn |-> "inc_dec", f |-> f, inc |-> Out(ci), dec |-> Out(cd),
                        pinc |-> [a |-> ri.a, f |-> ri.f],
                        pdec |-> [a |-> rd2.a, f |-> rd2.f]]
    /\ UNCHANGED <<last, fault, steps, arg, mem, cart, rd, wr, timer, gpu, dev, emu>>

\* ADD A,n (0xC6) then DAA (0x27)
AddDaa ==
    /\ res = NoRes
    /\ \E b \in BcdBytes, f \in AluFlags :
         LET c0 == [cpu EXCEPT !.reg.f = f]
             ca == alu_add(c0, b, FALSE)
             cd == alu_daa(ca)
         IN  /\ cpu' = cd
             /\ res' = [fn |-> "add_daa", b |-> b, f |-> f, add |-> Out(ca), daa |-> Out(cd)]
    /\ UNCHANGED <<last, fault, steps, arg, mem, cart, rd, wr, timer, gpu, dev, emu, registers>>

\* ADD, ADC, SUB, SBC A,n
AddSub ==
    /\ res = NoRes
    /\ \E op \in {"add", "adc", "sub", "sbc"}, b \in AluBytes, f \in AluFlags :
         LET c0 == [cpu EXCEPT !.reg.f = f]
             c1 == CASE op = "add" -> alu_add(c0, b, FALSE)
                     [] op = "adc" -> alu_add(c0, b, TRUE)
                     [] op = "sub" -> alu_sub(c0, b, FALSE)
                     [] op = "sbc" -> alu_sub(c0, b, TRUE)
         IN  /\ cpu' = c1
             /\ res' = [fn |-> op, b |-> b, f |-> f, out |-> Out(c1)]
    /\ UNCHANGED <<last, fault, steps, arg, mem, cart, rd, wr, timer, gpu, dev, emu, registers>>

\* ADD HL,rr with HL = A:l
AddHl ==
    /\ res = NoRes
    /\ \E l \in AluLows, rr \in AluWords, f \in AluFlags :
         LET c0 == sethl([cpu EXCEPT !.reg.f = f], arg.a * 256 + l)
             c1 == alu_add16(c0, rr)
         IN  /\ cpu' = c1
             /\ res' = [fn |-> "add16", hl |-> hl(c0), rr |-> rr, f |-> f,
                        out |-> [hl |-> hl(c1), f |-> c1.reg.f]]
    /\ UNCHANGED <<last, fault, steps, arg, mem, cart, rd, wr, timer, gpu, dev, emu, registers>>

\* ADD SP,e and LD HL,SP+e from the same state, SP = hi:A, e the byte at PC
AddSp ==
    /\ res = NoRes
    /\ \E hi \in SpHighs, e \in AluBytes, f \in {\hF0} :
         LET c0  == [cpu EXCEPT !.reg.f = f, !.reg.sp = hi * 256 + arg.a]
             env == [base |-> c0.reg.pc, code |-> <<e>>, data |-> <<0, 0>>]
             ra  == op_add_sp_e(c0, \hE8, env)
             rl  == op_ld_hl_sp_e(c0, \hF8, env)
         IN  /\ cpu' = ra.cpu
             /\ res' = [fn |-> "sp_e", sp |-> c0.reg.sp, e |-> e, f |-> f,
                        add |-> [r |-> ra.cpu.reg.sp, f |-> ra.cpu.reg.f, pc |-> ra.cpu.reg.pc],
                        ld  |-> [r |-> hl(rl.cpu), f |-> rl.cpu.reg.f, pc |-> rl.cpu.reg.pc,
                                 sp |-> rl.cpu.reg.sp]]
    /\ UNCHANGED <<last, fault, steps, arg, mem, cart, rd, wr, timer, gpu, dev, emu, registers>>

NextAlu == IncDec \/ AddDaa \/ AddSub \/ AddHl \/ AddSp

SpecAlu == InitAlu /\ [][NextAlu]_vars

Has(f, mask) == BitAnd(f, mask) # 0

\* C31: DEC of INC of a gives a back (both modulo 256); after INC the half
\* carry is set exactly when the low nibble of a was 0xF; INC clears
\* Subtract, DEC sets it; Zero is set exactly when the result is 0.  On the
\* engine and on the prototype.
C31_IncDecRoundTrip ==
    res.fn = "inc_dec" =>
        /\ cpu.reg.a = arg.a /\ registers.a = arg.a
        /\ \A o \in {<<res.inc, res.dec>>, <<res.pinc, res.pdec>>} :
             /\ o[1].a = (arg.a + 1) % 256
             /\ o[2].a = arg.a
             /\ Has(o[1].f, Flags.H) <=> (arg.a % 16 = 15)
             /\ ~Has(o[1].f, Flags.N)
             /\ Has(o[2].f, Flags.N)
             /\ Has(o[1].f, Flags.Z) <=> (o[1].a = 0)
             /\ Has(o[2].f, Flags.Z) <=> (o[2].a = 0)

\* C31 witness: 0xFF incremented to 0 with Zero and Half-carry, decremented
\* back to 0xFF
C31_Witness ==
    /\ res.fn = "inc_dec" /\ arg.a = \hFF
    /\ res.inc.a = 0 /\ Has(res.inc.f, Flags.Z) /\ Has(res.inc.f, Flags.H)
    /\ res.dec.a = \hFF

IsBcd(x) == x \div 16 <= 9 /\ x % 16 <= 9

FromBcd(x) == (x \div 16) * 10 + (x % 16)

ToBcd(n) == (n \div 10) * 16 + (n % 10)

\* C32: for packed BCD A and n, ADD A,n followed by DAA leaves A the packed
\* BCD of (dec(A) + dec(n)) mod 100, Carry set exactly when the decimal sum
\* is 100 or more, Half-carry clear and Zero set exactly when A is 0.
C32_DecimalAdjustAfterAdd ==
    (res.fn = "add_daa" /\ IsBcd(arg.a) /\ IsBcd(res.b)) =>
        LET sum == FromBcd(arg.a) + FromBcd(res.b)
        IN  /\ res.daa.a = ToBcd(sum % 100)
            /\ Has(res.daa.f, Flags.C) <=> (sum >= 100)
            /\ ~Has(res.daa.f, Flags.H)
            /\ Has(res.daa.f, Flags.Z) <=> (res.daa.a = 0)

\* C32 witness: 0x58 + 0x49 adds to 0xA1 with Half-carry and adjusts to
\* 0x07 with Carry (58 + 49 = 107)
C32_Witness ==
    /\ res.fn = "add_daa" /\ arg.a = \h58 /\ res.b = \h49
    /\ res.add.a = \hA1 /\ Has(res.add.f, Flags.H)
    /\ res.daa.a = \h07 /\ Has(res.daa.f, Flags.C)

\* C33: ADD/ADC give (a+b+c) mod 256, Carry = a+b+c > 255, Half-carry =
\* (a&15)+(b&15)+c > 15, Subtract clear; SUB/SBC give (a-b-c) mod 256,
\* Carry = a < b+c, Half-carry = (a&15) < (b&15)+c, Subtract set; c is the
\* incoming Carry for ADC/SBC and 0 for ADD/SUB; Zero is set exactly when
\* the result is 0.  ADD HL,rr takes Half-carry from bit 11 and Carry from
\* bit 15 and leaves Zero as it was.
C33_AddSubFlags ==
    /\ res.fn \in {"add", "adc", "sub", "sbc"} =>
         LET a == arg.a
             b == res.b
             c == IF res.fn \in {"adc", "sbc"} /\ Has(res.f, Flags.C) THEN 1 ELSE 0
             adds == res.fn \in {"add", "adc"}
             o == res.out
         IN  /\ adds => /\ o.a = (a + b + c) % 256
                        /\ Has(o.f, Flags.C) <=> (a + b + c > 255)
                        /\ Has(o.f, Flags.H) <=> ((a % 16) + (b % 16) + c > 15)
                        /\ ~Has(o.f, Flags.N)
             /\ ~adds => /\ o.a = (a - b - c) % 256
                         /\ Has(o.f, Flags.C) <=> (a < b + c)
                         /\ Has(o.f, Flags.H) <=> ((a % 16) < (b % 16) + c)
                         /\ Has(o.f, Flags.N)
             /\ Has(o.f, Flags.Z) <=> (o.a = 0)
    /\ res.fn = "add16" =>
         /\ res.out.hl = (res.hl + res.rr) % 65536
         /\ Has(res.out.f, Flags.H) <=> ((res.hl % 4096) + (res.rr % 4096) > 4095)
         /\ Has(res.out.f, Flags.C) <=> (res.hl + res.rr > 65535)
         /\ Has(res.out.f, Flags.Z) <=> Has(res.f, Flags.Z)

\* C33 witness: SBC of 0x10 - 0x0F with Carry in gives 0 with Zero,
\* Subtract and Half-carry, no Carry
C33_Witness ==
    /\ res.fn = "sbc" /\ arg.a = \h10 /\ res.b = \h0F /\ Has(res.f, Flags.C)
    /\ res.out.a = 0 /\ res.out.f = \hE0

\* ADD HL,rr of 0x0FFF + 0x0001 with Zero set before: Half-carry, no Carry,
\* Zero still set
Add16KeepsZero ==
    /\ res.fn = "add16" /\ res.hl = \h0FFF /\ res.rr = \h0001 /\ res.f = \hF0
    /\ res.out.hl = \h1000 /\ res.out.f = \hA0

\* C35: ADD SP,e and LD HL,SP+e give the same word (SP + signext(e)) mod
\* 2^16 and the same flags: Zero and Subtract clear, Half-carry the carry out
\* of bit 3 and Carry the carry out of bit 7 of SP's low byte plus e taken
\* unsigned.
C35_SpRelativeFormsAgree ==
    res.fn = "sp_e" =>
        LET se == IF res.e >= 128 THEN res.e - 256 ELSE res.e
        IN  /\ res.add.r = (res.sp + se) % 65536
            /\ res.ld.r = res.add.r
            /\ res.ld.f = res.add.f
            /\ ~Has(res.add.f, Flags.Z)
            /\ ~Has(res.add.f, Flags.N)
            /\ Has(res.add.f, Flags.H) <=> ((res.sp % 16) + (res.e % 16) > 15)
            /\ Has(res.add.f, Flags.C) <=> ((res.sp % 256) + res.e > 255)

\* C35 witness: SP = 0x00FF, e = -1: both give 0x00FE with Half-carry and
\* Carry
C35_Witness ==
    /\ res.fn = "sp_e" /\ res.sp = \h00FF /\ res.e = \hFF
    /\ res.add.r = \h00FE /\ res.ld.r = \h00FE
    /\ res.add.f = \h30 /\ res.ld.f = \h30 /\ res.ld.sp = \h00FF

(***************************************************************************)
(* CPU::fetchword and CPU::popstack.  Both advance their register with a   *)
(* plain += 2: a build with overflow checks panics where the sum leaves    *)
(* u16, a build without them wraps.  overflow_checks says which build runs.*)
(* mmu.rw reads the low byte at the address and the high byte after it.    *)
(***************************************************************************)
rw(c, addr, env) == rb(c, addr, env) + 256 * rb(c, wrap16(addr + 1), env)

Overflow == [msg |-> "attempt to add with overflow", args |-> <<>>]

fetchword(c, env, overflow_checks) ==
    LET w == rw(c, c.reg.pc, env)
    IN  IF c.reg.pc + 2 > \hFFFF /\ overflow_checks
        THEN [w |-> w, cpu |-> c, fault |-> Overflow]
        ELSE [w |-> w, cpu |-> [c EXCEPT !.reg.pc = wrap16(@ + 2)], fault |-> NoFault]

popstack(c, env, overflow_checks) ==
    LET r == rw(c, c.reg.sp, env)
    IN  IF c.reg.sp + 2 > \hFFFF /\ overflow_checks
        THEN [res |-> r, cpu |-> c, fault |-> Overflow]
        ELSE [res |-> r, cpu |-> [c EXCEPT !.reg.sp = wrap16(@ + 2)], fault |-> NoFault]

\* fetches and stack operations in one run
MaxFetches == 2

\* values of PC and SP at both ends of the address space
EdgeWords == {\h0000, \h0001, \h0100, \hFFFD, \hFFFE, \hFFFF}

FetchEnv(c) == [base |-> c.reg.pc, code |-> <<\h34, \h12>>, data |-> <<\h50, \h01>>]

InitFetch ==
    /\ last = NoObs
    /\ fault = NoFault
    /\ steps = 0
    /\ FnIdle
    /\ MemoryIdle
    /\ TimerIdle
    /\ GpuIdle
    /\ DevIdle
    /\ EmuIdle
    /\ RegistersIdle
    /\ \E pc \in EdgeWords, sp \in EdgeWords :
         cpu = [InitCpu EXCEPT !.reg.pc = pc, !.reg.sp = sp]

FetchByte ==
    /\ fault = NoFault
    /\ steps < MaxFetches
    /\ LET f == fetchbyte(cpu, FetchEnv(cpu))
       IN  /\ cpu' = f.cpu
           /\ res' = [fn |-> "fetchbyte", value |-> f.b]
           /\ fault' = NoFault
    /\ steps' = steps + 1
    /\ UNCHANGED <<last, arg, mem, cart, rd, wr, timer, gpu, dev, emu, registers>>

FetchWord ==
    /\ fault = NoFault
    /\ steps < MaxFetches
    /\ \E overflow_checks \in BOOLEAN :
         LET f == fetchword(cpu, FetchEnv(cpu), overflow_checks)
         IN  /\ cpu' = f.cpu
             /\ res' = [fn |-> "fetchword", value |-> f.w]
             /\ fault' = f.fault
    /\ steps' = steps + 1
    /\ UNCHANGED <<last, arg, mem, cart, rd, wr, timer, gpu, dev, emu, registers>>

PushStack ==
    /\ fault = NoFault
    /\ steps < MaxFetches
    /\ \E value \in {\hBEEF} :
         /\ cpu' = pushstack(cpu, value)
         /\ res' = [fn |-> "pushstack", value |-> value]
    /\ fault' = NoFault
    /\ steps' = steps + 1
    /\ UNCHANGED <<last, arg, mem, cart, rd, wr, timer, gpu, dev, emu, registers>>

PopStack ==
    /\ fault = NoFault
    /\ steps < MaxFetches
    /\ \E overflow_checks \in BOOLEAN :
         LET p == popstack(cpu, FetchEnv(cpu), overflow_checks)
         IN  /\ cpu' = p.cpu
             /\ res' = [fn |-> "popstack", value |-> p.res]
             /\ fault' = p.fault
    /\ steps' = steps + 1
    /\ UNCHANGED <<last, arg, mem, cart, rd, wr, timer, gpu, dev, emu, registers>>

NextFetch == FetchByte \/ FetchWord \/ PushStack \/ PopStack

SpecFetch == InitFetch /\ [][NextFetch]_vars

\* C39: no fetch and no stack operation faults; fetchbyte advances PC by
\* one and fetchword by two, pushstack moves SP down by two and popstack up
\* by two, all modulo 2^16.
C39_FetchWrapsWithoutFault ==
    [][ Stepped =>
          /\ fault' = NoFault
          /\ res'.fn = "fetchbyte" => cpu'.reg.pc = (cpu.reg.pc + 1) % 65536
          /\ res'.fn = "fetchword" => cpu'.reg.pc = (cpu.reg.pc + 2) % 65536
          /\ res'.fn = "pushstack" => cpu'.reg.sp = (cpu.reg.sp - 2) % 65536
          /\ res'.fn = "popstack" => cpu'.reg.sp = (cpu.reg.sp + 2) % 65536
      ]_vars

\* the one-byte fetch and the push do wrap without a fault (for reference)
ByteFetchAndPushWrap ==
    [][ (Stepped /\ res'.fn \in {"fetchbyte", "pushstack"}) =>
          /\ fault' = NoFault
          /\ res'.fn = "fetchbyte" => cpu'.reg.pc = (cpu.reg.pc + 1) % 65536
          /\ res'.fn = "pushstack" => cpu'.reg.sp = (cpu.reg.sp - 2) % 65536
      ]_vars

\* a 16-bit immediate fetched at PC = 0xFFFF has wrapped PC to 0x0001
WordFetchWrapped ==
    res.fn = "fetchword" /\ fault = NoFault /\ cpu.reg.pc = \h0001 /\ steps = 1

\* a 16-bit immediate fetched at the top of the address space has faulted
WordFetchFaulted ==
    res.fn = "fetchword" /\ fault = Overflow /\ cpu.reg.pc >= \hFFFE

====
